---- MODULE Spec2Model ----
(***************************************************************************)
(* A model of the gobgp BGP-4 speaker: the message codec (header, OPEN,    *)
(* UPDATE) as pure operators over byte sequences, and the session engine   *)
(* (type BGP) as a state machine whose goroutines interleave at their      *)
(* accesses to the shared fields running, conn, db and ch.                 *)
(*                                                                         *)
(* Texts are modelled by tuples: the CIDR text "a.b.c.d/m" is              *)
(* <<a, b, c, d, m>>, the dotted address "a.b.c.d" is <<a, b, c, d>>.      *)
(* A Go error is a string, "" being nil.                                   *)
(***************************************************************************)
EXTENDS Integers, Sequences, FiniteSets, Bags, TLC

(***************************************************************************)
(* Program constants.                                                      *)
(***************************************************************************)
headerLength == 19
msgTypeOpen == 1
msgTypeUpdate == 2
msgTypeNotification == 3
msgTypeKeepAlive == 4
bgpVersion == 4
attributeTypeOrigin == 1
attributeTypeAsPath == 2
attributeTypeNextHop == 3
OriginTypeIGP == 0
OriginTypeIncomplete == 2
AsPathTypeSet == 1
AsPathTypeSequence == 2
processQueueLength == 1000
\* buf := make([]byte, 65536) of readReply
bufLength == 65536

headerMarker == [i \in 1..16 |-> 255]

(***************************************************************************)
(* Bounds of the model.                                                    *)
(***************************************************************************)
\* connections the peer accepts in one run (connection handles are 1..MaxDials)
MaxDials == 3
\* sendKeepalive goroutines alive at the same time
MaxSenders == 1
\* frames the peer sends in one run
MaxFrames == 3
\* calls the application makes in one run
MaxCalls == 4
\* frames the peer sends at once
MaxBurst == 1002

(***************************************************************************)
(* Byte-level helpers (encoding/binary, net).                              *)
(***************************************************************************)
Byte(x) == x % 256

PutUint16(x) == <<(x \div 256) % 256, x % 256>>

PutUint32(x) == <<(x \div 16777216) % 256, (x \div 65536) % 256, (x \div 256) % 256, x % 256>>

Uint16(b) == b[1] * 256 + b[2]

Uint32(b) == ((b[1] * 256 + b[2]) * 256 + b[3]) * 256 + b[4]

Pow2(k) == CASE k = 0 -> 1 [] k = 1 -> 2 [] k = 2 -> 4 [] k = 3 -> 8 [] k = 4 -> 16
             [] k = 5 -> 32 [] k = 6 -> 64 [] k = 7 -> 128 [] OTHER -> 256

IsOctets(x, len) == /\ Len(x) = len
                    /\ \A i \in 1..len : x[i] \in 0..255

\* net.ParseIP(v).To4(): the four bytes, or <<>> for nil
ParseIPTo4(v) == IF IsOctets(v, 4) THEN v ELSE <<>>

\* bits of an m-bit mask that fall in byte i (1..4)
MaskBits(m, i) == IF m - 8 * (i - 1) < 0 THEN 0
                  ELSE IF m - 8 * (i - 1) > 8 THEN 8 ELSE m - 8 * (i - 1)

\* net.ParseCIDR(x): ok, the network address (the address masked) and the mask size
ParseCIDR(x) ==
    IF Len(x) = 5 /\ IsOctets(SubSeq(x, 1, 4), 4) /\ x[5] \in 0..32
    THEN [ok |-> TRUE,
          ip |-> [i \in 1..4 |-> (x[i] \div Pow2(8 - MaskBits(x[5], i))) * Pow2(8 - MaskBits(x[5], i))],
          size |-> x[5]]
    ELSE [ok |-> FALSE, ip |-> <<>>, size |-> 0]

parsePrefix(x) ==
    LET p == ParseCIDR(x)
    IN IF ~p.ok THEN [n |-> 0, m |-> 0, err |-> "invalid CIDR address"]
       ELSE [n |-> Uint32(p.ip), m |-> Byte(p.size), err |-> ""]

\* the zero value of MsgUpdate
ZeroUpdate == [Withdrawns |-> <<>>, Prefixes |-> <<>>, Origin |-> 0,
               AsPath |-> [Type |-> 0, Path |-> <<>>], NextHops |-> <<>>]

(***************************************************************************)
(* The codec: header, OPEN, UPDATE.                                        *)
(***************************************************************************)
marshalMessageHeader(t, l) ==
    IF l < 0 THEN [ret |-> <<>>, err |-> "Invalid message length"]
    ELSE IF t \notin {msgTypeOpen, msgTypeUpdate, msgTypeNotification, msgTypeKeepAlive}
    THEN [ret |-> <<>>, err |-> "Unknown message type"]
    ELSE [ret |-> headerMarker \o PutUint16((l + headerLength) % 65536) \o <<Byte(t)>>, err |-> ""]

marshalMessageOpen(m) ==
    LET n == ParseIPTo4(m.RouterID)
        buf == <<bgpVersion>> \o PutUint16(m.ASN) \o PutUint16(m.HoldTime) \o n \o <<0>>
        h == marshalMessageHeader(msgTypeOpen, Len(buf))
    IN IF n = <<>> THEN [ret |-> <<>>, err |-> "Invalid RouterID"]
       ELSE IF h.err # "" THEN [ret |-> <<>>, err |-> h.err]
       ELSE [ret |-> h.ret \o buf, err |-> ""]

\* the 5-byte entries of a list of prefixes, or the first parse error
RECURSIVE PrefixEntries(_)
PrefixEntries(ps) ==
    IF ps = <<>> THEN [ret |-> <<>>, err |-> ""]
    ELSE LET p == parsePrefix(Head(ps))
             rest == PrefixEntries(Tail(ps))
         IN IF p.err # "" THEN [ret |-> <<>>, err |-> p.err]
            ELSE IF rest.err # "" THEN rest
            ELSE [ret |-> <<p.m>> \o PutUint32(p.n) \o rest.ret, err |-> ""]

RECURSIVE AsPathEntries(_)
AsPathEntries(path) ==
    IF path = <<>> THEN <<>> ELSE PutUint16(Head(path)) \o AsPathEntries(Tail(path))

\* the bytes of a list of next hops, or the first invalid one
RECURSIVE NextHopEntries(_)
NextHopEntries(hops) ==
    IF hops = <<>> THEN [ret |-> <<>>, err |-> ""]
    ELSE LET n == ParseIPTo4(Head(hops))
             rest == NextHopEntries(Tail(hops))
         IN IF n = <<>> THEN [ret |-> <<>>, err |-> "Invalid next hop"]
            ELSE IF rest.err # "" THEN rest
            ELSE [ret |-> n \o rest.ret, err |-> ""]

\* if len(m.Prefixes) > 0: the message announces, and carries the attributes
AnnouncesAlways(m) == TRUE
Announces(m) == Len(m.Prefixes) > 0

marshalMessageUpdate(m) ==
    LET w == PrefixEntries(m.Withdrawns)
        bufW == IF Len(m.Withdrawns) > 0
                THEN PutUint16((Len(m.Withdrawns) * 5) % 65536) \o w.ret
                ELSE <<0, 0>>
        bufOrigin == <<64, attributeTypeOrigin, 1, Byte(m.Origin)>>
        bufAsPath == <<64, attributeTypeAsPath, Byte(Len(m.AsPath.Path) * 2 + 2),
                       Byte(m.AsPath.Type), Byte(Len(m.AsPath.Path))>>
                     \o AsPathEntries(m.AsPath.Path)
        hops == NextHopEntries(m.NextHops)
        bufNextHop == <<64, attributeTypeNextHop, Byte(4 * Len(m.NextHops))>> \o hops.ret
        bufA == IF Announces(m)
                THEN PutUint16((Len(bufOrigin) + Len(bufAsPath) + Len(bufNextHop)) % 65536)
                     \o bufOrigin \o bufAsPath \o bufNextHop
                ELSE <<0, 0>>
        nlri == PrefixEntries(m.Prefixes)
        h == marshalMessageHeader(msgTypeUpdate, Len(bufW) + Len(bufA) + Len(nlri.ret))
    IN IF Len(m.Withdrawns) > 0 /\ w.err # "" THEN [ret |-> <<>>, err |-> w.err]
       ELSE IF Announces(m) /\ Len(m.AsPath.Path) = 0
       THEN [ret |-> <<>>, err |-> "Empty AS path"]
       ELSE IF Announces(m) /\ Len(m.NextHops) = 0
       THEN [ret |-> <<>>, err |-> "No next hop defined"]
       ELSE IF Announces(m) /\ hops.err # "" THEN [ret |-> <<>>, err |-> hops.err]
       ELSE IF nlri.err # "" THEN [ret |-> <<>>, err |-> nlri.err]
       ELSE IF h.err # "" THEN [ret |-> <<>>, err |-> h.err]
       ELSE [ret |-> h.ret \o bufW \o bufA \o nlri.ret, err |-> ""]

(***************************************************************************)
(* The codec: decoding.  A decoder's result is [ret, err, panic]; panic    *)
(* is an index or a slice bound out of range.  in[i] of the source is      *)
(* At(in, i); a frame is taken with its capacity equal to its length.      *)
(***************************************************************************)
At(in, i) == in[i + 1]

Decoded(x) == [ret |-> x, err |-> "", panic |-> FALSE]
Failed(x, e) == [ret |-> x, err |-> e, panic |-> FALSE]
Panicked(x) == [ret |-> x, err |-> "", panic |-> TRUE]

\* the text "<nil>" that net.IPNet.String() gives for a mask longer than 32 bits
NilText == <<>>

\* net.IPNet{IP: net.IPv4(a, b, c, d), Mask: net.CIDRMask(mask, 32)}.String()
IPNetString(mask, a, b, c, d) == IF mask > 32 THEN NilText ELSE <<a, b, c, d, mask>>

\* cnt entries of 5 bytes from pos on: the texts so far and whether an index was out of range
RECURSIVE ReadPrefixes(_, _, _)
ReadPrefixes(in, pos, cnt) ==
    IF cnt <= 0 THEN [ret |-> <<>>, panic |-> FALSE]
    ELSE IF pos + 4 >= Len(in) THEN [ret |-> <<>>, panic |-> TRUE]
    ELSE LET rest == ReadPrefixes(in, pos + 5, cnt - 1)
         IN [ret |-> <<IPNetString(At(in, pos), At(in, pos + 1), At(in, pos + 2),
                                   At(in, pos + 3), At(in, pos + 4))>> \o rest.ret,
             panic |-> rest.panic]

RECURSIVE ReadAsPath(_, _, _)
ReadAsPath(in, pos, aplen) ==
    IF aplen <= 0 THEN [ret |-> <<>>, panic |-> FALSE]
    ELSE IF pos + 2 > Len(in) THEN [ret |-> <<>>, panic |-> TRUE]
    ELSE LET rest == ReadAsPath(in, pos + 2, aplen - 1)
         IN [ret |-> <<Uint16(<<At(in, pos), At(in, pos + 1)>>)>> \o rest.ret, panic |-> rest.panic]

RECURSIVE ReadNextHops(_, _, _)
ReadNextHops(in, pos, gws) ==
    IF gws <= 0 THEN [ret |-> <<>>, panic |-> FALSE]
    ELSE IF pos + 3 >= Len(in) THEN [ret |-> <<>>, panic |-> TRUE]
    ELSE LET rest == ReadNextHops(in, pos + 4, gws - 1)
         IN [ret |-> <<<<At(in, pos), At(in, pos + 1), At(in, pos + 2), At(in, pos + 3)>>>> \o rest.ret,
             panic |-> rest.panic]

\* the loop "for pos < attrEnd" of unmarshalMessageUpdate: [pos, ret, err, panic]
RECURSIVE WalkAttributes(_, _, _, _)
WalkAttributes(in, pos, attrEnd, ret) ==
    IF pos >= attrEnd THEN [pos |-> pos, ret |-> ret, err |-> "", panic |-> FALSE]
    ELSE IF pos >= Len(in) THEN [pos |-> pos, ret |-> ret, err |-> "", panic |-> TRUE]
    ELSE IF At(in, pos) # 64
    THEN IF pos + 2 >= Len(in) THEN [pos |-> pos, ret |-> ret, err |-> "", panic |-> TRUE]
         ELSE WalkAttributes(in, pos + At(in, pos + 2) + 3, attrEnd, ret)
    ELSE IF pos + 1 >= Len(in) THEN [pos |-> pos, ret |-> ret, err |-> "", panic |-> TRUE]
    ELSE IF At(in, pos + 1) = attributeTypeOrigin
    THEN IF pos + 3 >= Len(in) THEN [pos |-> pos, ret |-> ret, err |-> "", panic |-> TRUE]
         ELSE WalkAttributes(in, pos + 4, attrEnd, [ret EXCEPT !.Origin = At(in, pos + 3)])
    ELSE IF At(in, pos + 1) = attributeTypeAsPath
    THEN IF pos + 4 >= Len(in) THEN [pos |-> pos, ret |-> ret, err |-> "", panic |-> TRUE]
         ELSE LET aplen == At(in, pos + 4)
                  path == ReadAsPath(in, pos + 5, aplen)
                  got == [ret EXCEPT !.AsPath = [Type |-> At(in, pos + 3), Path |-> @.Path \o path.ret]]
              IN IF path.panic THEN [pos |-> pos, ret |-> got, err |-> "", panic |-> TRUE]
                 ELSE WalkAttributes(in, pos + 5 + 2 * aplen, attrEnd, got)
    ELSE IF At(in, pos + 1) = attributeTypeNextHop
    THEN IF pos + 2 >= Len(in) THEN [pos |-> pos, ret |-> ret, err |-> "", panic |-> TRUE]
         ELSE IF At(in, pos + 2) % 4 # 0
         THEN [pos |-> pos + 2, ret |-> ret, err |-> "Invalid nexthop attribute length", panic |-> FALSE]
         ELSE LET gws == At(in, pos + 2) \div 4
                  hops == ReadNextHops(in, pos + 3, gws)
                  got == [ret EXCEPT !.NextHops = @ \o hops.ret]
              IN IF hops.panic THEN [pos |-> pos, ret |-> got, err |-> "", panic |-> TRUE]
                 ELSE WalkAttributes(in, pos + 3 + 4 * gws, attrEnd, got)
    ELSE WalkAttributes(in, pos + At(in, pos), attrEnd, ret)

unmarshalMessageUpdate(in) ==
    IF Len(in) < 2 THEN Panicked(ZeroUpdate)
    ELSE LET cntw == Uint16(<<At(in, 0), At(in, 1)>>)
             w == ReadPrefixes(in, 2, cntw \div 5)
             pos == 2 + 5 * (cntw \div 5)
             ret1 == [ZeroUpdate EXCEPT !.Withdrawns = w.ret]
         IN IF cntw % 5 # 0 THEN Failed(ZeroUpdate, "Invalid withdrawn length")
            ELSE IF w.panic \/ pos + 2 > Len(in) THEN Panicked(ret1)
            ELSE LET attrlen == Uint16(<<At(in, pos), At(in, pos + 1)>>)
                     a == WalkAttributes(in, pos + 2, pos + 2 + attrlen, ret1)
                     cnt == (Len(in) - a.pos) \div 5
                     nlri == ReadPrefixes(in, a.pos, cnt)
                 IN IF attrlen = 0 THEN Decoded(ret1)
                    ELSE IF a.panic THEN Panicked(a.ret)
                    ELSE IF a.err # "" THEN Failed(a.ret, a.err)
                    ELSE IF (Len(in) - a.pos) % 5 # 0 THEN Failed(a.ret, "Invalid NLRI specification")
                    ELSE IF nlri.panic THEN Panicked(a.ret)
                    ELSE Decoded([a.ret EXCEPT !.Prefixes = nlri.ret])

ZeroOpen == [ASN |-> 0, HoldTime |-> 0, RouterID |-> <<>>]

unmarshalMessageOpen(in) ==
    IF Len(in) < 1 THEN Panicked(ZeroOpen)
    ELSE IF At(in, 0) # bgpVersion THEN Failed(ZeroOpen, "Unsupported BGP protocol version")
    ELSE IF Len(in) < 9 THEN Panicked(ZeroOpen)
    ELSE Decoded([ASN |-> Uint16(<<At(in, 1), At(in, 2)>>),
                  HoldTime |-> Uint16(<<At(in, 3), At(in, 4)>>),
                  RouterID |-> <<At(in, 5), At(in, 6), At(in, 7), At(in, 8)>>])

\* the subcodes of msgErrSubCodesMsg, msgErrSubCodesOpen, msgErrSubCodesUpdate, msgErrSubCodesCease
msgErrCodes == 1..6
msgErrSubCodesMsg == 1..3
msgErrSubCodesOpen == {1, 2, 3, 4, 6, 7}
msgErrSubCodesUpdate == {1, 2, 3, 4, 5, 6, 8, 9, 10, 11}
msgErrSubCodesCease == 1..10

unmarshalMessageNotification(in) ==
    LET ret == [Code |-> At(in, 0), SubCode |-> At(in, 1), Data |-> SubSeq(in, 3, Len(in))]
    IN IF Len(in) < 2 THEN Failed([Code |-> 0, SubCode |-> 0, Data |-> <<>>], "Message too small")
       ELSE IF ret.Code \notin msgErrCodes THEN Failed(ret, "Invalid notification error code")
       ELSE IF ret.Code = 1 /\ ret.SubCode \notin msgErrSubCodesMsg
       THEN Failed(ret, "Invalid notification message error subcode")
       ELSE IF ret.Code = 2 /\ ret.SubCode \notin msgErrSubCodesOpen
       THEN Failed(ret, "Invalid notification open error subcode")
       ELSE IF ret.Code = 3 /\ ret.SubCode \notin msgErrSubCodesUpdate
       THEN Failed(ret, "Invalid notification update error subcode")
       ELSE IF ret.Code = 6 /\ ret.SubCode \notin msgErrSubCodesCease
       THEN Failed(ret, "Invalid notification cease error subcode")
       ELSE Decoded(ret)

marshalMessageNotification(m) ==
    LET buf == <<m.Code, m.SubCode>> \o m.Data
        h == marshalMessageHeader(msgTypeNotification, Len(buf))
    IN IF m.Code \notin msgErrCodes THEN [ret |-> <<>>, err |-> "Invalid notification error code"]
       ELSE IF m.Code = 1 /\ m.SubCode \notin msgErrSubCodesMsg
       THEN [ret |-> <<>>, err |-> "Invalid notification message error subcode"]
       ELSE IF m.Code = 2 /\ m.SubCode \notin msgErrSubCodesOpen
       THEN [ret |-> <<>>, err |-> "Invalid notification open error subcode"]
       ELSE IF m.Code = 3 /\ m.SubCode \notin msgErrSubCodesUpdate
       THEN [ret |-> <<>>, err |-> "Invalid notification update error subcode"]
       ELSE IF h.err # "" THEN [ret |-> <<>>, err |-> h.err]
       ELSE [ret |-> h.ret \o buf, err |-> ""]

NoData == [nil |-> TRUE]
Message(t, d) == [Type |-> t, Data |-> d]

\* in is a frame as readReply hands it over: what follows the 16-byte marker
unmarshalMessage(in) ==
    IF Len(in) < 2 THEN Panicked(Message(0, NoData))
    ELSE LET l == Uint16(<<At(in, 0), At(in, 1)>>)
             body == SubSeq(in, 4, Len(in))
             d == CASE At(in, 2) = msgTypeOpen -> unmarshalMessageOpen(body)
                    [] At(in, 2) = msgTypeUpdate -> unmarshalMessageUpdate(body)
                    [] At(in, 2) = msgTypeNotification -> unmarshalMessageNotification(body)
                    [] At(in, 2) = msgTypeKeepAlive -> Decoded(NoData)
                    [] OTHER -> Failed(NoData, "Unknown message type")
         IN IF l < headerLength THEN Failed(Message(0, NoData), "Message too small")
            ELSE IF l # (Len(in) + 16) % 65536
            THEN Failed(Message(0, NoData), "Length of the message differs from advertised length")
            ELSE [ret |-> Message(At(in, 2), d.ret), err |-> d.err, panic |-> d.panic]

(***************************************************************************)
(* The inputs of the model.                                                *)
(***************************************************************************)
\* BgpConfig of the README's example: RouterID, ASN, HoldTime
ConfigRouterID == <<1, 1, 1, 1>>
ConfigASN == 1111
ConfigHoldTime == 30

\* "12.34.56.78/32", "10.0.0.0/8" and the unparsable "1.2.3.4/33"
Prefix1 == <<12, 34, 56, 78, 32>>
Prefix2 == <<10, 0, 0, 0, 8>>
BadPrefix == <<1, 2, 3, 4, 33>>
PrefixTexts == {Prefix1, Prefix2, BadPrefix}
ValidPrefixes == {p \in PrefixTexts : parsePrefix(p).err = ""}

\* the (origin, AS path, next hops) arguments of Add: two valid ones, then an
\* empty AS_PATH, no next hop and an invalid next hop
Attrs(o, t, path, hops) == [Origin |-> o, AsPath |-> [Type |-> t, Path |-> path], NextHops |-> hops]
GoodAttrs1 == Attrs(OriginTypeIGP, AsPathTypeSequence, <<ConfigASN>>, <<ConfigRouterID>>)
GoodAttrs2 == Attrs(OriginTypeIncomplete, AsPathTypeSet, <<ConfigASN, 2222>>, <<<<2, 2, 2, 2>>>>)
BadAttrsNoPath == Attrs(OriginTypeIGP, AsPathTypeSequence, <<>>, <<ConfigRouterID>>)
BadAttrsNoHop == Attrs(OriginTypeIGP, AsPathTypeSequence, <<ConfigASN>>, <<>>)
BadAttrsBadHop == Attrs(OriginTypeIGP, AsPathTypeSequence, <<ConfigASN>>, <<<<1, 1, 1, 256>>>>)
NoAttrs == Attrs(0, 0, <<>>, <<>>)
AttrChoices == {GoodAttrs1, GoodAttrs2, BadAttrsNoPath, BadAttrsNoHop, BadAttrsBadHop}

\* what the peer sends: a frame is a message without its 16-byte marker
Frame(msg) == SubSeq(msg, 17, Len(msg))
KeepAliveFrame == Frame(marshalMessageHeader(msgTypeKeepAlive, 0).ret)
OpenFrame == Frame(marshalMessageOpen([ASN |-> 2222, HoldTime |-> 90, RouterID |-> <<2, 2, 2, 2>>]).ret)
UpdateFrame == Frame(marshalMessageUpdate([ZeroUpdate EXCEPT !.Prefixes = <<Prefix2>>,
                        !.Origin = OriginTypeIGP, !.AsPath = [Type |-> AsPathTypeSequence, Path |-> <<2222>>],
                        !.NextHops = <<<<2, 2, 2, 2>>>>]).ret)
NotificationFrame == Frame(marshalMessageNotification([Code |-> 6, SubCode |-> 2, Data |-> <<>>]).ret)
\* a frame whose length field (99) is not its length
BadLengthFrame == <<0, 99, msgTypeKeepAlive>>

\* what one Read returns: the bytes before the first marker and the frames after each marker
ReadResult(junk, frames) == [junk |-> junk, frames |-> frames]
ReadResults == {ReadResult(<<>>, <<KeepAliveFrame, UpdateFrame>>),
                ReadResult(<<>>, <<BadLengthFrame, OpenFrame>>),
                ReadResult(<<>>, <<NotificationFrame>>),
                ReadResult(<<1, 2, 3>>, <<>>),
                ReadResult([i \in 1..20 |-> 0], <<>>)}

RECURSIVE SumLen(_)
SumLen(frames) ==
    IF frames = <<>> THEN 0
    ELSE IF Len(frames) = 1 THEN 16 + Len(Head(frames))
    ELSE SumLen(SubSeq(frames, 1, Len(frames) \div 2))
         + SumLen(SubSeq(frames, Len(frames) \div 2 + 1, Len(frames)))
\* n of n, err := b.conn.Read(buf)
ReadLength(b) == Len(b.junk) + SumLen(b.frames)

(***************************************************************************)
(* The state of a BGP instance, of the network and of the goroutines.      *)
(***************************************************************************)
VARIABLES
    running,    \* b.running
    conn,       \* b.conn: 0 is nil, c > 0 is the handle of the c-th connection dialed
    db,         \* b.db: prefix text -> MsgUpdate
    ch,         \* b.ch: the messages queued
    chClosed,   \* whether close(b.ch) has run
    dials,      \* connections dialed so far
    closed,     \* the handles on which Close() has run
    wire,       \* per handle: the first message written to it and the set of messages written
    monitor,    \* the goroutines running connection(), a bag of [pc, todo, v]
    ticker,     \* the goroutines running keepalive(), a bag of [pc]
    senders,    \* the goroutines running sendKeepalive(), a bag of [pc]
    reader,     \* the goroutines running readReply(), a bag of [pc, h, pkts]
    processor,  \* the goroutines running processReply(), a bag of [pc]
    caller,     \* the application goroutine: the call it is in, [pc, op, p, m]
    ret,        \* what the caller's last call returned, [op, p, err, val]
    calls,      \* the calls the caller has made
    last,       \* per prefix text: the Add (with its arguments), if the caller's last Add or Del
                \* of the prefix that was not rejected is an Add
    received,   \* the frames that Read has returned, in order
    dispatched, \* the messages processReply has taken from b.ch, in order
    handled,    \* the MsgUpdate values b.updateHandler was called with, in order
    crashed,    \* a goroutine panicked: the process is gone
    arg,        \* the codec alone: the function called and its argument, [fn, in]
    out         \* the codec alone: what the calls made so far returned

vars == <<running, conn, db, ch, chClosed, dials, closed, wire, monitor, ticker, senders,
          reader, processor, caller, ret, calls, last, received, dispatched, handled, crashed,
          arg, out>>

shared == <<running, conn, db, ch, chClosed>>
network == <<dials, closed, wire>>
goroutines == <<monitor, ticker, senders, reader, processor>>
application == <<caller, ret, calls, last>>
inbound == <<received, dispatched, handled>>
codec == <<arg, out>>

Handles == 1..MaxDials

Put(bag, r) == bag (+) SetToBag({r})
Take(bag, r) == bag (-) SetToBag({r})
Move(bag, r, s) == Put(Take(bag, r), s)

NoAdd == [op |-> "", a |-> NoAttrs]
\* no call of a codec function is under way
NoCall == [fn |-> "", in |-> << >>]
NoOut == << >>
Idle == [pc |-> "idle", op |-> "", p |-> <<>>, m |-> ZeroUpdate]
Return(op, p, err, val) == [op |-> op, p |-> p, err |-> err, val |-> val]

Mon(pc, todo, v) == [pc |-> pc, todo |-> todo, v |-> v]
MonAt(pc) == Mon(pc, {}, ZeroUpdate)
Rd(pc, h, pkts) == [pc |-> pc, h |-> h, pkts |-> pkts]

\* what the peer holds of a connection: the first message written to it, the OPEN
\* and the KEEPALIVE written to it and, per prefix, the last UPDATE that names it
NoWire == [first |-> << >>, open |-> << >>, keepalive |-> << >>,
           update |-> [p \in ValidPrefixes |-> << >>]]

\* New: the instance after construction with a valid configuration
Constructed ==
    /\ running = FALSE
    /\ conn = 0
    /\ db = << >>
    /\ ch = << >>
    /\ chClosed = FALSE
    /\ dials = 0
    /\ closed = {}
    /\ wire = [c \in Handles |-> NoWire]
    /\ monitor = EmptyBag
    /\ ticker = EmptyBag
    /\ senders = EmptyBag
    /\ reader = EmptyBag
    /\ processor = EmptyBag
    /\ caller = Idle
    /\ ret = Return("", <<>>, "", FALSE)
    /\ calls = 0
    /\ last = [p \in PrefixTexts |-> NoAdd]
    /\ received = << >>
    /\ dispatched = << >>
    /\ handled = << >>
    /\ crashed = FALSE

Init ==
    /\ Constructed
    /\ arg = NoCall
    /\ out = NoOut

(***************************************************************************)
(* net.Conn.                                                               *)
(***************************************************************************)
\* c.Write(msg) succeeded, msg being the encoding of a message of type t (of the UpdateMessage m)
Written(c, t, msg, m) ==
    [wire EXCEPT ![c] =
        [first |-> IF @.first = << >> THEN msg ELSE @.first,
         open |-> IF t = msgTypeOpen THEN msg ELSE @.open,
         keepalive |-> IF t = msgTypeKeepAlive THEN msg ELSE @.keepalive,
         update |-> [p \in ValidPrefixes |->
                        IF t = msgTypeUpdate /\ \E i \in 1..Len(m.Prefixes \o m.Withdrawns) :
                                                    (m.Prefixes \o m.Withdrawns)[i] = p
                        THEN msg ELSE @.update[p]]]]

\* c.Close(): the peer forgets the connection
Closed(c) == closed \cup {c}
Forgotten(c) == [wire EXCEPT ![c] = NoWire]

\* a write or a read on c may succeed only while Close() has not run on it
MaySucceed(c) == c \notin closed

\* a panic in any goroutine ends the process
Panic ==
    /\ crashed' = TRUE
    /\ UNCHANGED <<shared, network, goroutines, application, inbound>>

(***************************************************************************)
(* connect, disconnect and sendUpdate, as their callers step through them. *)
(***************************************************************************)
OpenMsg == marshalMessageOpen([ASN |-> ConfigASN, HoldTime |-> ConfigHoldTime, RouterID |-> ConfigRouterID])

\* connect, b.conn, err = net.Dial(...): the new handle, or nil with the error
connectDial(ok) ==
    /\ ok => dials < MaxDials
    /\ dials' = IF ok THEN dials + 1 ELSE dials
    /\ conn' = IF ok THEN dials + 1 ELSE 0

\* connect, b.conn.Write(msg) of the OPEN on a handle that is not nil
connectWrite(ok) ==
    /\ ok => MaySucceed(conn)
    /\ wire' = IF ok THEN Written(conn, msgTypeOpen, OpenMsg.ret, ZeroUpdate) ELSE wire

\* disconnect, past its test b.conn != nil: b.conn.Close(); b.conn = nil
disconnectClose ==
    /\ closed' = Closed(conn)
    /\ wire' = Forgotten(conn)
    /\ conn' = 0

\* sendUpdate, past its test b.conn == nil: marshal m and write it; the error returned
sendUpdateWrite(m, err) ==
    LET msg == marshalMessageUpdate(m)
    IN IF msg.err # "" THEN err = msg.err /\ wire' = wire
       ELSE \/ /\ MaySucceed(conn)
               /\ err = ""
               /\ wire' = Written(conn, msgTypeUpdate, msg.ret, m)
            \/ /\ err = "write failed"
               /\ wire' = wire

\* the goroutines that are ranging over b.db: a write of the map races with them
RangingSet == {r \in BagToSet(monitor) : r.pc \in {"range", "send"}}
Ranging == RangingSet # {}

\* b.db[p] = m while goroutines range over b.db: each of the goroutines in S will
\* produce the new entry, the others will skip it
RECURSIVE MoveAll(_, _, _)
MoveAll(bag, r, s) == IF r = s \/ ~BagIn(r, bag) THEN bag ELSE MoveAll(Move(bag, r, s), r, s)

RECURSIVE Inserted(_, _, _)
Inserted(bag, S, p) ==
    IF S = {} THEN bag
    ELSE LET r == CHOOSE x \in S : TRUE
         IN Inserted(MoveAll(bag, r, [r EXCEPT !.todo = @ \cup {p}]), S \ {r}, p)

(***************************************************************************)
(* The calls of the application: Connect, Disconnect, Add, Del, Exists.    *)
(***************************************************************************)
\* the application makes one more call
Called ==
    /\ calls < MaxCalls
    /\ calls' = calls + 1

ConnectCallUnguarded ==
    /\ caller.pc = "idle"
    /\ Called
    /\ OpenMsg.err = ""
    /\ caller' = [Idle EXCEPT !.pc = "dial", !.op = "Connect"]
    /\ UNCHANGED <<shared, network, goroutines, ret, last, inbound, crashed>>

ConnectCall ==
    /\ caller.pc = "idle"
    /\ Called
    /\ IF running
       THEN /\ ret' = Return("Connect", <<>>, "Connect: Alredy running", FALSE)
            /\ UNCHANGED caller
       ELSE /\ OpenMsg.err = ""
            /\ caller' = [Idle EXCEPT !.pc = "dial", !.op = "Connect"]
            /\ UNCHANGED ret
    /\ UNCHANGED <<shared, network, goroutines, last, inbound, crashed>>

ConnectDial ==
    /\ caller.pc = "dial"
    /\ \E ok \in BOOLEAN :
         /\ connectDial(ok)
         /\ IF ok
            THEN caller' = [caller EXCEPT !.pc = "open"] /\ UNCHANGED ret
            ELSE caller' = Idle /\ ret' = Return("Connect", <<>>, "dial failed", FALSE)
    /\ UNCHANGED <<running, db, ch, chClosed, closed, wire, goroutines, calls, last, inbound, crashed>>

ConnectOpen ==
    /\ caller.pc = "open"
    /\ IF conn = 0 THEN Panic
       ELSE \E ok \in BOOLEAN :
              /\ connectWrite(ok)
              /\ caller' = Idle
              /\ IF ok
                 THEN /\ running' = TRUE
                      /\ processor' = Put(processor, [pc |-> "recv"])
                      /\ monitor' = Put(monitor, MonAt("loop"))
                      /\ ticker' = Put(ticker, [pc |-> "start"])
                      /\ reader' = Put(reader, Rd("loop", 0, <<>>))
                      /\ ret' = Return("Connect", <<>>, "", FALSE)
                 ELSE /\ ret' = Return("Connect", <<>>, "write failed", FALSE)
                      /\ UNCHANGED <<running, processor, monitor, ticker, reader>>
              /\ UNCHANGED <<conn, db, ch, chClosed, dials, closed, senders, calls, last, inbound, crashed>>

DisconnectCall ==
    /\ caller.pc = "idle"
    /\ Called
    /\ IF ~running
       THEN /\ ret' = Return("Disconnect", <<>>, "Disconnect: Not running", FALSE)
            /\ UNCHANGED <<running, caller>>
       ELSE /\ running' = FALSE
            /\ caller' = [Idle EXCEPT !.pc = IF conn # 0 THEN "close" ELSE "closech", !.op = "Disconnect"]
            /\ UNCHANGED ret
    /\ UNCHANGED <<conn, db, ch, chClosed, network, goroutines, last, inbound, crashed>>

DisconnectClose ==
    /\ caller.pc = "close"
    /\ IF conn = 0 THEN Panic
       ELSE /\ disconnectClose
            /\ caller' = [caller EXCEPT !.pc = "closech"]
            /\ UNCHANGED <<running, db, ch, chClosed, dials, goroutines, ret, calls, last, inbound, crashed>>

DisconnectCloseCh ==
    /\ caller.pc = "closech"
    /\ IF chClosed THEN Panic
       ELSE /\ chClosed' = TRUE
            /\ caller' = Idle
            /\ ret' = Return("Disconnect", <<>>, "", FALSE)
            /\ UNCHANGED <<running, conn, db, ch, network, goroutines, calls, last, inbound, crashed>>

\* the UpdateMessage Add builds of its arguments
Announcement(p, a) ==
    [ZeroUpdate EXCEPT !.Prefixes = <<p>>, !.Origin = a.Origin, !.AsPath = a.AsPath,
                       !.NextHops = a.NextHops]

\* the UpdateMessage Del makes of the stored one
Withdrawal(m) == [m EXCEPT !.Withdrawns = m.Prefixes, !.Prefixes = <<>>]

\* Add's test of the key: _, e := b.db[p]
DuplicateUnseen(p) == FALSE
Duplicate(p) == p \in DOMAIN db

\* Add's validation of the message it built: _, err := marshalMessageUpdate(m)
InvalidIgnored(m) == ""
Invalid(m) == marshalMessageUpdate(m).err

\* b.db[p] = m
StoredIfSent(p, m) == IF conn = 0 THEN db ELSE [k \in DOMAIN db \cup {p} |-> IF k = p THEN m ELSE db[k]]
Stored(p, m) == [k \in DOMAIN db \cup {p} |-> IF k = p THEN m ELSE db[k]]

\* delete(b.db, x)
DeletedNothing(x) == db
Deleted(x) == [k \in DOMAIN db \ {x} |-> db[k]]

AddCall(p, a) ==
    LET m == Announcement(p, a)
    IN /\ caller.pc = "idle"
       /\ Called
       /\ IF Duplicate(p)
          THEN /\ ret' = Return("Add", p, "Add: Prefix alredy exists", FALSE)
               /\ UNCHANGED <<db, monitor, caller, last, crashed>>
          ELSE IF Invalid(m) # ""
          THEN /\ ret' = Return("Add", p, Invalid(m), FALSE)
               /\ UNCHANGED <<db, monitor, caller, last, crashed>>
          ELSE \/ /\ db' = Stored(p, m)
                  /\ \E S \in SUBSET RangingSet : monitor' = Inserted(monitor, S, p)
                  /\ last' = [last EXCEPT ![p] = [op |-> "Add", a |-> a]]
                  /\ IF conn = 0
                     THEN /\ ret' = Return("Add", p, "sendUpdate: BGP connection NOT ready!", FALSE)
                          /\ UNCHANGED caller
                     ELSE /\ caller' = [pc |-> "write", op |-> "Add", p |-> p, m |-> m]
                          /\ UNCHANGED ret
                  /\ UNCHANGED crashed
               \/ /\ Ranging
                  /\ crashed' = TRUE
                  /\ UNCHANGED <<db, monitor, caller, ret, last>>
       /\ UNCHANGED <<running, conn, ch, chClosed, network, ticker, senders, reader, processor, inbound>>

DelCall(x) ==
    /\ caller.pc = "idle"
    /\ Called
    /\ IF x \notin DOMAIN db
       THEN /\ ret' = Return("Del", x, "Del: Prefix not found", FALSE)
            /\ UNCHANGED <<db, caller, last, crashed>>
       ELSE \/ /\ db' = Deleted(x)
               /\ last' = [last EXCEPT ![x] = NoAdd]
               /\ IF conn = 0
                  THEN /\ ret' = Return("Del", x, "sendUpdate: BGP connection NOT ready!", FALSE)
                       /\ UNCHANGED caller
                  ELSE /\ caller' = [pc |-> "write", op |-> "Del", p |-> x, m |-> Withdrawal(db[x])]
                       /\ UNCHANGED ret
               /\ UNCHANGED crashed
            \/ /\ Ranging
               /\ crashed' = TRUE
               /\ UNCHANGED <<db, caller, ret, last>>
    /\ UNCHANGED <<running, conn, ch, chClosed, network, goroutines, inbound>>

\* the b.conn.Write of the sendUpdate that ends Add and Del
CallWrite ==
    /\ caller.pc = "write"
    /\ IF conn = 0 THEN Panic
       ELSE \E err \in {"", "write failed", marshalMessageUpdate(caller.m).err} :
              /\ sendUpdateWrite(caller.m, err)
              /\ ret' = Return(caller.op, caller.p, err, FALSE)
              /\ caller' = Idle
              /\ UNCHANGED <<shared, dials, closed, goroutines, calls, last, inbound, crashed>>

ExistsCall(x) ==
    /\ caller.pc = "idle"
    /\ Called
    /\ ret' = Return("Exists", x, "", x \in DOMAIN db)
    /\ UNCHANGED <<shared, network, goroutines, caller, last, inbound, crashed>>

(***************************************************************************)
(* connection: the monitor goroutine.                                      *)
(***************************************************************************)
\* for b.running
connectionLoop(r) ==
    /\ r.pc = "loop"
    /\ monitor' = IF running THEN Move(monitor, r, MonAt("check")) ELSE Take(monitor, r)
    /\ UNCHANGED <<shared, network, ticker, senders, reader, processor, application, inbound, crashed>>

\* if b.conn == nil, else time.Sleep
connectionCheck(r) ==
    /\ r.pc = "check"
    /\ monitor' = Move(monitor, r, MonAt(IF conn = 0 /\ OpenMsg.err = "" THEN "dial" ELSE "loop"))
    /\ UNCHANGED <<shared, network, ticker, senders, reader, processor, application, inbound, crashed>>

\* connect's net.Dial, which succeeds or not (ok)
connectionDialed(r, ok) ==
    /\ r.pc = "dial"
    /\ connectDial(ok)
    /\ monitor' = Move(monitor, r, MonAt(IF ok THEN "open" ELSE "loop"))
    /\ UNCHANGED <<running, db, ch, chClosed, closed, wire, ticker, senders, reader, processor,
                   application, inbound, crashed>>

connectionDial(r) == \E ok \in BOOLEAN : connectionDialed(r, ok)

\* connect's write of the OPEN, which succeeds or not (ok); after a success
\* for _, v := range b.db starts
connectionOpened(r, ok) ==
    /\ r.pc = "open"
    /\ IF conn = 0 THEN Panic
       ELSE /\ connectWrite(ok)
            /\ monitor' = Move(monitor, r, IF ok THEN Mon("range", DOMAIN db, ZeroUpdate)
                                                 ELSE MonAt("loop"))
            /\ UNCHANGED <<shared, dials, closed, ticker, senders, reader, processor,
                           application, inbound, crashed>>

connectionOpen(r) == \E ok \in BOOLEAN : connectionOpened(r, ok)

\* the value v the range produces for key k
ResentBare(k) == [ZeroUpdate EXCEPT !.Prefixes = <<k>>]
Resent(k) == db[k]

\* one iteration of the range, todo being the keys it has yet to produce: the next
\* entry (a key deleted meanwhile is not produced) and sendUpdate's test of b.conn,
\* or the end of the loop
connectionRange(r) ==
    /\ r.pc = "range"
    /\ IF r.todo \cap DOMAIN db = {}
       THEN monitor' = Move(monitor, r, MonAt("loop"))
       ELSE \E k \in r.todo \cap DOMAIN db :
              monitor' = Move(monitor, r,
                              IF conn = 0 THEN Mon("range", r.todo \ {k}, ZeroUpdate)
                              ELSE Mon("send", r.todo \ {k}, Resent(k)))
    /\ UNCHANGED <<shared, network, ticker, senders, reader, processor, application, inbound, crashed>>

\* the b.conn.Write of sendUpdate(v), which returns err
connectionSent(r, err) ==
    /\ r.pc = "send"
    /\ IF conn = 0 THEN Panic
       ELSE /\ sendUpdateWrite(r.v, err)
            /\ monitor' = Move(monitor, r, Mon("range", r.todo, ZeroUpdate))
            /\ UNCHANGED <<shared, dials, closed, ticker, senders, reader, processor,
                           application, inbound, crashed>>

connectionSend(r) == \E err \in {"", "write failed", marshalMessageUpdate(r.v).err} : connectionSent(r, err)

connection ==
    \E r \in BagToSet(monitor) :
        \/ connectionLoop(r)
        \/ connectionCheck(r)
        \/ connectionDial(r)
        \/ connectionOpen(r)
        \/ connectionRange(r)
        \/ connectionSend(r)

(***************************************************************************)
(* keepalive and sendKeepalive.                                            *)
(***************************************************************************)
KeepAliveMsg == marshalMessageHeader(msgTypeKeepAlive, 0)

\* go b.sendKeepalive()
SpawnedNothing == senders
Spawned == Put(senders, [pc |-> "check"])
MaySpawn == BagCardinality(senders) < MaxSenders

\* the ticker is created and the first sendKeepalive started
keepaliveStart(r) ==
    /\ r.pc = "start"
    /\ MaySpawn
    /\ ticker' = Move(ticker, r, [pc |-> "tick"])
    /\ senders' = Spawned
    /\ UNCHANGED <<shared, network, monitor, reader, processor, application, inbound, crashed>>

\* a tick: the goroutine ends if !b.running, else it starts a sendKeepalive
keepaliveTick(r) ==
    /\ r.pc = "tick"
    /\ IF ~running
       THEN ticker' = Take(ticker, r) /\ UNCHANGED senders
       ELSE MaySpawn /\ senders' = Spawned /\ UNCHANGED ticker
    /\ UNCHANGED <<shared, network, monitor, reader, processor, application, inbound, crashed>>

keepalive == \E r \in BagToSet(ticker) : keepaliveStart(r) \/ keepaliveTick(r)

\* if b.conn == nil { return }
sendKeepaliveCheck(r) ==
    /\ r.pc = "check"
    /\ senders' = IF conn = 0 \/ KeepAliveMsg.err # "" THEN Take(senders, r)
                  ELSE Move(senders, r, [pc |-> "write"])
    /\ UNCHANGED <<shared, network, monitor, ticker, reader, processor, application, inbound, crashed>>

\* b.conn.Write(msg); a failed write goes on to disconnect, whose test b.conn != nil holds here
sendKeepaliveWrite(r) ==
    /\ r.pc = "write"
    /\ IF conn = 0 THEN Panic
       ELSE /\ \/ /\ MaySucceed(conn)
                  /\ wire' = Written(conn, msgTypeKeepAlive, KeepAliveMsg.ret, ZeroUpdate)
                  /\ senders' = Take(senders, r)
               \/ /\ wire' = wire
                  /\ senders' = Move(senders, r, [pc |-> "close"])
            /\ UNCHANGED <<shared, dials, closed, monitor, ticker, reader, processor, application,
                           inbound, crashed>>

\* disconnect: b.conn.Close(); b.conn = nil
sendKeepaliveClose(r) ==
    /\ r.pc = "close"
    /\ IF conn = 0 THEN Panic
       ELSE /\ disconnectClose
            /\ senders' = Take(senders, r)
            /\ UNCHANGED <<running, db, ch, chClosed, dials, monitor, ticker, reader, processor,
                           application, inbound, crashed>>

sendKeepalive ==
    \E r \in BagToSet(senders) : sendKeepaliveCheck(r) \/ sendKeepaliveWrite(r) \/ sendKeepaliveClose(r)

(***************************************************************************)
(* readReply: the reader goroutine.                                        *)
(***************************************************************************)
\* for b.running; if b.conn == nil the goroutine sleeps and tests again
readReplyLoop(r) ==
    /\ r.pc = "loop"
    /\ reader' = IF ~running THEN Take(reader, r)
                 ELSE IF conn = 0 THEN reader
                 ELSE Move(reader, r, Rd("read", 0, <<>>))
    /\ UNCHANGED <<shared, network, monitor, ticker, senders, processor, application, inbound, crashed>>

\* b.conn.Read(buf) is called: the goroutine blocks in Read on the handle b.conn holds
readReplyRead(r) ==
    /\ r.pc = "read"
    /\ IF conn = 0 THEN Panic
       ELSE /\ reader' = Move(reader, r, Rd("inread", conn, <<>>))
            /\ UNCHANGED <<shared, network, monitor, ticker, senders, processor, application,
                           inbound, crashed>>

\* Read returns an error (the only outcome once the handle is closed): disconnect's test of b.conn
readReplyError(r) ==
    /\ r.pc = "inread"
    /\ reader' = Move(reader, r, Rd(IF conn # 0 THEN "close" ELSE "loop", 0, <<>>))
    /\ UNCHANGED <<shared, network, monitor, ticker, senders, processor, application, inbound, crashed>>

readReplyClose(r) ==
    /\ r.pc = "close"
    /\ IF conn = 0 THEN Panic
       ELSE /\ disconnectClose
            /\ reader' = Move(reader, r, Rd("loop", 0, <<>>))
            /\ UNCHANGED <<running, db, ch, chClosed, dials, monitor, ticker, senders, processor,
                           application, inbound, crashed>>

\* Read returns n bytes: too small, without a marker, or split into pkts[1:]
readReplyReturned(r, b) ==
    /\ r.pc = "inread"
    /\ MaySucceed(r.h)
    /\ ReadLength(b) <= bufLength
    /\ received' = received \o b.frames
    /\ reader' = Move(reader, r, IF ReadLength(b) < headerLength \/ Len(b.frames) + 1 < 2
                                 THEN Rd("loop", 0, <<>>)
                                 ELSE Rd("push", 0, b.frames))
    /\ UNCHANGED <<shared, network, monitor, ticker, senders, processor, application, dispatched,
                   handled, crashed>>

\* the same, of a peer that sends MaxFrames frames at most
readReplyData(r, b) ==
    /\ Len(received) + Len(b.frames) <= MaxFrames
    /\ readReplyReturned(r, b)

\* b.ch <- msg
QueuedFirst(msg) == <<msg>> \o ch
Queued(msg) == Append(ch, msg)

\* b.ch holds as many messages as it has room for: a send blocks
QueueNeverFull == FALSE
QueueFull == Len(ch) >= processQueueLength

\* one frame of pkts[1:]: unmarshalMessage, then b.ch <- msg (which blocks while the queue is full)
readReplyPush(r) ==
    /\ r.pc = "push"
    /\ LET msg == unmarshalMessage(Head(r.pkts))
           next == IF Len(r.pkts) = 1 THEN Rd("loop", 0, <<>>) ELSE Rd("push", 0, Tail(r.pkts))
       IN IF msg.panic THEN Panic
          ELSE IF msg.err # ""
          THEN /\ reader' = Move(reader, r, next)
               /\ UNCHANGED <<shared, network, monitor, ticker, senders, processor, application,
                              inbound, crashed>>
          ELSE IF chClosed THEN Panic
          ELSE /\ ~QueueFull
               /\ ch' = Queued(msg.ret)
               /\ reader' = Move(reader, r, next)
               /\ UNCHANGED <<running, conn, db, chClosed, network, monitor, ticker, senders, processor,
                              application, inbound, crashed>>

readReply ==
    \E r \in BagToSet(reader) :
        \/ readReplyLoop(r)
        \/ readReplyRead(r)
        \/ readReplyError(r)
        \/ readReplyClose(r)
        \/ \E b \in ReadResults : readReplyData(r, b)
        \/ readReplyPush(r)

(***************************************************************************)
(* processReply: the processor goroutine.                                  *)
(***************************************************************************)
\* for m := range b.ch: the next message is dispatched on its type
processReplyReceive(r) ==
    /\ r.pc = "recv"
    /\ ch # <<>>
    /\ ch' = Tail(ch)
    /\ dispatched' = Append(dispatched, Head(ch))
    /\ handled' = IF Head(ch).Type = msgTypeUpdate THEN Append(handled, Head(ch).Data) ELSE handled
    /\ IF Head(ch).Type = msgTypeOpen
       THEN MaySpawn /\ senders' = Spawned /\ UNCHANGED processor
       ELSE IF Head(ch).Type = msgTypeNotification /\ conn # 0
       THEN processor' = Move(processor, r, [pc |-> "close"]) /\ UNCHANGED senders
       ELSE UNCHANGED <<senders, processor>>
    /\ UNCHANGED <<running, conn, db, chClosed, network, monitor, ticker, reader, application,
                   received, crashed>>

\* the queue is closed and drained: the range ends
processReplyDone(r) ==
    /\ r.pc = "recv"
    /\ ch = <<>>
    /\ chClosed
    /\ processor' = Take(processor, r)
    /\ UNCHANGED <<shared, network, monitor, ticker, senders, reader, application, inbound, crashed>>

processReplyClose(r) ==
    /\ r.pc = "close"
    /\ IF conn = 0 THEN Panic
       ELSE /\ disconnectClose
            /\ processor' = Move(processor, r, [pc |-> "recv"])
            /\ UNCHANGED <<running, db, ch, chClosed, dials, monitor, ticker, senders, reader,
                           application, inbound, crashed>>

processReply ==
    \E r \in BagToSet(processor) :
        processReplyReceive(r) \/ processReplyDone(r) \/ processReplyClose(r)

(***************************************************************************)
(* The specification.                                                      *)
(***************************************************************************)
Connect == ConnectCall \/ ConnectDial \/ ConnectOpen
Disconnect == DisconnectCall \/ DisconnectClose \/ DisconnectCloseCh
Add == \E p \in PrefixTexts, a \in AttrChoices : AddCall(p, a)
Del == \E x \in PrefixTexts : DelCall(x)
Exists == \E x \in PrefixTexts : ExistsCall(x)

\* every step the program can take
Next ==
    /\ ~crashed
    /\ UNCHANGED codec
    /\ \/ Connect
       \/ Disconnect
       \/ Add
       \/ Del
       \/ CallWrite
       \/ Exists
       \/ connection
       \/ keepalive
       \/ sendKeepalive
       \/ readReply
       \/ processReply

Spec == Init /\ [][Next]_vars

(***************************************************************************)
(* The specifications checked.  Each one schedules some of the goroutines  *)
(* and starves the others, so each of its behaviours is a behaviour of     *)
(* Spec.                                                                   *)
(***************************************************************************)
\* the reader with a peer that sends nothing: its Read only ever fails
readReplyFailing ==
    \E r \in BagToSet(reader) :
        readReplyLoop(r) \/ readReplyRead(r) \/ readReplyError(r) \/ readReplyClose(r)

\* the application, the monitor and the reader of a silent peer
NextDb ==
    /\ ~crashed
    /\ UNCHANGED codec
    /\ \/ Connect
       \/ Disconnect
       \/ Add
       \/ Del
       \/ CallWrite
       \/ Exists
       \/ connection
       \/ readReplyFailing

SpecDb == Init /\ [][NextDb]_vars

(***************************************************************************)
(* The properties.                                                         *)
(***************************************************************************)
\* the call op(p) has returned err, and the caller has started no call since
Returned(op, p, err) == caller = Idle /\ ret = Return(op, p, err, FALSE)

NotReady == "sendUpdate: BGP connection NOT ready!"

\* the UPDATE that announces prefix p with the arguments a of Add
Announced(p, a) == marshalMessageUpdate(Announcement(p, a)).ret

\* the UPDATE that withdraws prefix p
Withdrawn(p) == marshalMessageUpdate(Withdrawal(Announcement(p, GoodAttrs1))).ret

\* Add(p, ...) was the first call, made with the socket absent, Connect() the second:
\* it has succeeded, and its connection is the one b.conn holds
AddedThenConnected(p) ==
    /\ calls = 2
    /\ Returned("Connect", <<>>, "")
    /\ p \in DOMAIN db
    /\ dials = 1
    /\ conn = 1

\* C1: when Add(p, ...) was called with the socket absent and Connect() then
\* succeeded, the UPDATE announcing p has been written to the connection of that
\* Connect by the time the next Add or Del call runs.
C1ResentBeforeNextCall ==
    [][\A p \in ValidPrefixes :
          (AddedThenConnected(p) /\ (Add \/ Del)) => wire[1].update[p] = Announced(p, last[p].a)]_vars

C1Scenario == \E p \in ValidPrefixes : AddedThenConnected(p) /\ wire[1].open = OpenMsg.ret

\* C2: Add(p, ...) of a key of the database and Del(x) of a prefix that is no key
\* return their error at once, leave the database as it was and write nothing to
\* any connection.
C2RejectedChangesNothing ==
    [][/\ \A p \in PrefixTexts, a \in AttrChoices :
            (p \in DOMAIN db /\ AddCall(p, a)) =>
                /\ ret' = Return("Add", p, "Add: Prefix alredy exists", FALSE)
                /\ caller' = Idle
                /\ db' = db
                /\ wire' = wire
       /\ \A x \in PrefixTexts :
            (x \notin DOMAIN db /\ DelCall(x)) =>
                /\ ret' = Return("Del", x, "Del: Prefix not found", FALSE)
                /\ caller' = Idle
                /\ db' = db
                /\ wire' = wire]_vars

C2RejectedWhileConnected ==
    /\ Returned("Add", Prefix1, "Add: Prefix alredy exists")
    /\ Prefix1 \in DOMAIN db
    /\ conn # 0
    /\ wire[conn].update[Prefix1] = Announced(Prefix1, last[Prefix1].a)

\* C3: in every state a prefix is a key of the database exactly when the last Add
\* or Del of it that was not rejected is an Add; Exists(x) returns that, and
\* changes nothing.
C3ExistsIsLastAdd ==
    [][/\ \A p \in PrefixTexts : (p \in DOMAIN db') <=> (last'[p].op = "Add")
       /\ \A x \in PrefixTexts :
            ExistsCall(x) =>
                /\ ret' = Return("Exists", x, "", last[x].op = "Add")
                /\ UNCHANGED <<shared, network, goroutines, caller, last, inbound, crashed>>]_vars

\* Connect, Add(Prefix1), Del(Prefix1), Exists(Prefix1): the withdrawal is on the wire
C3AddDelExists ==
    /\ caller = Idle
    /\ ret = Return("Exists", Prefix1, "", FALSE)
    /\ \E c \in Handles : wire[c].update[Prefix1] = Withdrawn(Prefix1)

\* C4: an Add that returned a transmission error (the socket absent, or the write
\* failed) has stored its entry, and a Del that returned one has removed its entry.
C4StoredWhateverSent ==
    \A p \in PrefixTexts, err \in {NotReady, "write failed"} :
        /\ Returned("Add", p, err) => (p \in DOMAIN db /\ db[p] = Announcement(p, last[p].a))
        /\ Returned("Del", p, err) => p \notin DOMAIN db

C4AddWriteFailed ==
    /\ Returned("Add", Prefix1, "write failed")
    /\ Prefix1 \in DOMAIN db
    /\ conn # 0
    /\ wire[conn].update[Prefix1] = << >>

\* C5: an Add of a new prefix whose UpdateMessage the codec rejects returns the
\* codec's error at once, writes nothing and does not store the prefix.
C5InvalidAddStoresNothing ==
    [][\A p \in PrefixTexts, a \in AttrChoices :
          (/\ p \notin DOMAIN db
           /\ AddCall(p, a)
           /\ marshalMessageUpdate(Announcement(p, a)).err # "") =>
                /\ ret' = Return("Add", p, marshalMessageUpdate(Announcement(p, a)).err, FALSE)
                /\ ret'.err \in {"invalid CIDR address", "Empty AS path", "No next hop defined",
                                 "Invalid next hop"}
                /\ caller' = Idle
                /\ p \notin DOMAIN db'
                /\ db' = db
                /\ wire' = wire]_vars

C5InvalidWhileConnected ==
    /\ Returned("Add", BadPrefix, "invalid CIDR address")
    /\ conn # 0
    /\ wire[conn].open = OpenMsg.ret

\* the goroutines of each of the four activities
Activities == <<BagCardinality(processor), BagCardinality(monitor), BagCardinality(ticker),
                BagCardinality(reader)>>

\* C6: Connect() while running returns an error, dials nothing, leaves b.conn and
\* starts no goroutine; Connect() while not running returns an error with running
\* still false and no goroutine started, or returns nil with running true and one
\* goroutine more of each of the four activities.
C6ConnectGuarded ==
    [][/\ (running /\ ConnectCall) =>
            /\ ret' = Return("Connect", <<>>, "Connect: Alredy running", FALSE)
            /\ caller' = Idle
            /\ UNCHANGED <<shared, network, goroutines>>
       /\ (~running /\ ConnectCall) => (caller'.pc = "dial" /\ UNCHANGED <<shared, network, goroutines>>)
       /\ ((ConnectDial \/ ConnectOpen) /\ caller' = Idle /\ ~crashed') =>
            /\ ~running
            /\ ret'.op = "Connect"
            /\ IF ret'.err = ""
               THEN running' /\ Activities' = [i \in 1..4 |-> Activities[i] + 1]
               ELSE ~running' /\ UNCHANGED goroutines]_vars

C6SecondConnect ==
    /\ Returned("Connect", <<>>, "Connect: Alredy running")
    /\ running
    /\ conn # 0

\* Disconnect() has returned nil and no call was made since
Shutdown == Returned("Disconnect", <<>>, "")

\* C7: from the return of a successful Disconnect() until the next call, b.conn is
\* nil and no connection is dialed.
C7ShutdownIsTerminal == [][Shutdown => (conn = 0 /\ conn' = 0 /\ dials' = dials)]_vars

C7ShutdownReached == Shutdown /\ conn = 0 /\ monitor # EmptyBag

\* the next step of monitor r takes entry k from its pass and leaves v to be sent
Takes(r, k, v) == monitor' = Move(monitor, r, Mon("send", r.todo \ {k}, v))

\* the next step of monitor r passes entry k over
Skips(r, k) == monitor' = Move(monitor, r, Mon("range", r.todo \ {k}, ZeroUpdate))

connectionAccepted ==
    \E r \in BagToSet(monitor) :
        \/ connectionLoop(r)
        \/ connectionCheck(r)
        \/ connectionDialed(r, TRUE)
        \/ connectionOpened(r, TRUE)
        \/ connectionRange(r)
        \/ connectionSend(r)

\* the reader with a silent peer: Read fails on the first connection and on a
\* closed one, and blocks on any other
readReplyLost ==
    \E r \in BagToSet(reader) :
        \/ readReplyLoop(r)
        \/ readReplyRead(r)
        \/ (r.h \in closed \cup {1} /\ readReplyError(r))
        \/ readReplyClose(r)

\* sendKeepalive with that peer: its write fails on the first connection only
sendKeepaliveLost ==
    \E r \in BagToSet(senders) :
        \/ sendKeepaliveCheck(r)
        \/ (sendKeepaliveWrite(r) /\ (conn > 1 => ~BagIn([pc |-> "close"], senders')))
        \/ sendKeepaliveClose(r)

NextLive ==
    /\ ~crashed
    /\ UNCHANGED codec
    /\ \/ Connect
       \/ Disconnect
       \/ connectionAccepted
       \/ readReplyLost
       \/ keepalive
       \/ sendKeepaliveLost

\* the steps of the monitors, one by one
connectionLoops == ~crashed /\ UNCHANGED codec /\ \E r \in BagToSet(monitor) : connectionLoop(r)
connectionChecks == ~crashed /\ UNCHANGED codec /\ \E r \in BagToSet(monitor) : connectionCheck(r)
connectionDials == ~crashed /\ UNCHANGED codec /\ \E r \in BagToSet(monitor) : connectionDialed(r, TRUE)
connectionOpens == ~crashed /\ UNCHANGED codec /\ \E r \in BagToSet(monitor) : connectionOpened(r, TRUE)
connectionRanges == ~crashed /\ UNCHANGED codec /\ \E r \in BagToSet(monitor) : connectionRange(r)
connectionSends == ~crashed /\ UNCHANGED codec /\ \E r \in BagToSet(monitor) : connectionSend(r)

\* every goroutine that can take its next step takes it
SpecLive ==
    /\ Init
    /\ [][NextLive]_vars
    /\ WF_vars(connectionLoops)
    /\ WF_vars(connectionChecks)
    /\ WF_vars(connectionDials)
    /\ WF_vars(connectionOpens)
    /\ WF_vars(connectionRanges)
    /\ WF_vars(connectionSends)
    /\ WF_vars(~crashed /\ UNCHANGED codec /\ readReplyLost)
    /\ WF_vars(~crashed /\ UNCHANGED codec /\ keepalive)
    /\ WF_vars(~crashed /\ UNCHANGED codec /\ sendKeepaliveLost)

\* the engine is running with the socket absent, and the peer accepts a connection more
Lost == running /\ conn = 0 /\ dials < MaxDials

\* the socket is present with an OPEN sent on it
Recovered == conn # 0 /\ wire[conn].open = OpenMsg.ret

\* C9: when the engine is running with the socket absent, the socket is later
\* present with an OPEN written to it, unless Disconnect() is called first.
C9Recovers == Lost ~> (Recovered \/ ~running)

\* the same, unless the process has panicked
C9RecoversOrPanics == Lost ~> (Recovered \/ ~running \/ crashed)

C9LostReached == Lost /\ monitor # EmptyBag /\ 1 \in closed

(***************************************************************************)
(* The inbound path: the reader of a peer that sends, and the processor.   *)
(***************************************************************************)
NextIn ==
    /\ ~crashed
    /\ UNCHANGED codec
    /\ \/ Connect
       \/ Disconnect
       \/ readReply
       \/ processReply
       \/ sendKeepalive

SpecIn == Init /\ [][NextIn]_vars

\* the messages the frames decode to, in order, the frames that do not decode left out
RECURSIVE DecodedOf(_)
DecodedOf(frames) ==
    IF frames = << >> THEN << >>
    ELSE LET msg == unmarshalMessage(Head(frames))
         IN (IF ~msg.panic /\ msg.err = "" THEN <<msg.ret>> ELSE << >>) \o DecodedOf(Tail(frames))

\* the frames the readers have split off and not yet come to
RECURSIVE PendingOf(_)
PendingOf(rs) ==
    IF rs = {} THEN << >>
    ELSE LET r == CHOOSE x \in rs : TRUE
         IN r.pkts \o PendingOf(rs \ {r})

Pending == PendingOf(BagToSet(reader))

IsPrefix(s, t) == Len(s) <= Len(t) /\ SubSeq(t, 1, Len(s)) = s

\* C10: the messages dispatched are, in order, the first of the messages decoded
\* from what Read returned; while the queue is open, the messages dispatched,
\* then the messages queued, then those of the frames the reader has yet to
\* come to, are exactly the messages decoded from what Read returned.
C10DispatchedInOrder ==
    /\ IsPrefix(dispatched, DecodedOf(received))
    /\ ~chClosed => dispatched \o ch \o DecodedOf(Pending) = DecodedOf(received)

\* a KEEPALIVE and an UPDATE of one read, then the NOTIFICATION of another
C10ThreeDispatched ==
    /\ dispatched = DecodedOf(<<KeepAliveFrame, UpdateFrame, NotificationFrame>>)
    /\ Len(dispatched) = 3
    /\ ~chClosed

(***************************************************************************)
(* The dispatch of processReply.                                           *)
(***************************************************************************)
\* the engine's fields and the network, which a dispatch may or may not touch
session == <<running, conn, db, chClosed, dials, closed, wire>>

\* the step ends the dispatch of a NOTIFICATION that processor r has taken: the
\* disconnect() of the dispatch returns
NotificationDispatched(r) ==
    \/ processReplyReceive(r) /\ Head(ch).Type = msgTypeNotification /\ conn = 0
    \/ processReplyClose(r)

\* C11: when the dispatch of a NOTIFICATION ends, b.conn is nil, the socket it
\* held is closed and b.running is as it was; the dispatch of an OPEN starts a
\* sendKeepalive, that of an UPDATE calls b.updateHandler with the message, and
\* neither touches the engine's fields; the dispatch of a KEEPALIVE changes
\* nothing but the queue.
C11DispatchByType ==
    [][\A r \in BagToSet(processor) :
          /\ NotificationDispatched(r) =>
                /\ ~crashed'
                /\ conn' = 0
                /\ conn # 0 => conn \in closed'
                /\ running' = running
                /\ processor' = Move(processor, r, [pc |-> "recv"])
          /\ (processReplyReceive(r) /\ Head(ch).Type = msgTypeOpen) =>
                /\ senders' = Put(senders, [pc |-> "check"])
                /\ UNCHANGED <<session, handled>>
          /\ (processReplyReceive(r) /\ Head(ch).Type = msgTypeUpdate) =>
                /\ handled' = Append(handled, Head(ch).Data)
                /\ UNCHANGED <<session, goroutines>>
          /\ (processReplyReceive(r) /\ Head(ch).Type = msgTypeKeepAlive) =>
                UNCHANGED <<session, goroutines, handled>>]_vars

\* the same, but for a dispatch of a NOTIFICATION that ends in a panic
C11DispatchByTypeOrPanics ==
    [][\A r \in BagToSet(processor) :
          /\ (NotificationDispatched(r) /\ ~crashed') =>
                /\ conn' = 0
                /\ conn # 0 => conn \in closed'
                /\ running' = running
                /\ processor' = Move(processor, r, [pc |-> "recv"])
          /\ (processReplyReceive(r) /\ Head(ch).Type = msgTypeOpen) =>
                /\ senders' = Put(senders, [pc |-> "check"])
                /\ UNCHANGED <<session, handled>>
          /\ (processReplyReceive(r) /\ Head(ch).Type = msgTypeUpdate) =>
                /\ handled' = Append(handled, Head(ch).Data)
                /\ UNCHANGED <<session, goroutines>>
          /\ (processReplyReceive(r) /\ Head(ch).Type = msgTypeKeepAlive) =>
                UNCHANGED <<session, goroutines, handled>>]_vars

\* a NOTIFICATION was dispatched on the first connection while the reader was
\* blocked in Read: the socket is closed, the handle nil, the engine running
C11NotificationDispatched ==
    /\ dispatched = DecodedOf(<<NotificationFrame>>)
    /\ Len(dispatched) = 1
    /\ conn = 0
    /\ closed = {1}
    /\ running
    /\ BagIn(Rd("inread", 1, <<>>), reader)
    /\ BagIn([pc |-> "recv"], processor)

(***************************************************************************)
(* Transport failures.                                                     *)
(***************************************************************************)
\* the step leaves the engine Disconnected: the socket b.conn held is closed and
\* b.conn is nil
Disconnects == conn # 0 /\ conn \in closed' /\ conn' = 0 /\ ~crashed'

\* a session is established: the engine is running with b.conn set
Established == running /\ conn # 0

\* C12: on an established session, the step in which the handling of a
\* transport failure ends leaves the socket closed and b.conn nil: the failed
\* Write of the UPDATE of Add, of Del and of the monitor's pass, the
\* disconnect() after a failed Write of a KEEPALIVE and the disconnect() after
\* a failed Read.
C12FailureDisconnects ==
    [][Established =>
          /\ (CallWrite /\ ret'.err = "write failed") => Disconnects
          /\ \A r \in BagToSet(monitor) : connectionSent(r, "write failed") => Disconnects
          /\ \A r \in BagToSet(senders) : sendKeepaliveClose(r) => Disconnects
          /\ \A r \in BagToSet(reader) : readReplyClose(r) => Disconnects]_vars

\* Del(Prefix1) has returned the error of its Write on the first connection
C12UpdateWriteFailed ==
    /\ Returned("Del", Prefix1, "write failed")
    /\ running
    /\ dials = 1
    /\ wire[1].update[Prefix1] = Announced(Prefix1, GoodAttrs1)

(***************************************************************************)
(* The keepalive activity.                                                 *)
(***************************************************************************)
\* a sendKeepalive goroutine writes the KEEPALIVE to connection c
KeepaliveWritten(c) ==
    \E r \in BagToSet(senders) :
        /\ sendKeepaliveWrite(r)
        /\ conn = c
        /\ wire'[c].keepalive = KeepAliveMsg.ret
        /\ senders' = Take(senders, r)

KeepaliveWritten1 == KeepaliveWritten(1)
KeepaliveWritten2 == KeepaliveWritten(2)
KeepaliveWritten3 == KeepaliveWritten(3)

\* connection c stays: from some state on the engine is running with b.conn = c
Stays(c) == <>[](running /\ conn = c /\ ~crashed)

\* C13: keepalive starts a sendKeepalive when it starts and at every tick that
\* finds the engine running, and ends only at a tick that finds it not running;
\* a sendKeepalive that finds b.conn nil ends without a write, one that finds it
\* set goes on to write, and its Write on a set b.conn is that of the KEEPALIVE
\* message and of nothing else; a connection that stays gets a KEEPALIVE
\* written again and again.
C13KeepaliveCadence ==
    /\ [][/\ \A r \in BagToSet(ticker) :
              /\ keepaliveStart(r) =>
                    senders' = Put(senders, [pc |-> "check"]) /\ ticker' = Move(ticker, r, [pc |-> "tick"])
              /\ (keepaliveTick(r) /\ running) =>
                    senders' = Put(senders, [pc |-> "check"]) /\ ticker' = ticker
              /\ (keepaliveTick(r) /\ ~running) => senders' = senders
          /\ BagCardinality(ticker') < BagCardinality(ticker) => ~running
          /\ \A r \in BagToSet(senders) :
              /\ sendKeepaliveCheck(r) =>
                    /\ wire' = wire
                    /\ senders' = IF conn = 0 THEN Take(senders, r) ELSE Move(senders, r, [pc |-> "write"])
              /\ sendKeepaliveWrite(r) =>
                    \/ wire' = wire
                    \/ conn # 0 /\ wire' = [wire EXCEPT ![conn].keepalive = KeepAliveMsg.ret,
                                                        ![conn].first = IF @ = << >> THEN KeepAliveMsg.ret ELSE @]]_vars
    /\ Stays(1) => []<><<KeepaliveWritten1>>_vars
    /\ Stays(2) => []<><<KeepaliveWritten2>>_vars
    /\ Stays(3) => []<><<KeepaliveWritten3>>_vars

\* the second connection has its KEEPALIVE, written at a tick
C13KeepaliveOnSecond ==
    /\ running
    /\ conn = 2
    /\ wire[2].open = OpenMsg.ret
    /\ wire[2].keepalive = KeepAliveMsg.ret
    /\ wire[1].keepalive = << >>
    /\ 1 \in closed
    /\ BagIn([pc |-> "tick"], ticker)
    /\ senders = EmptyBag

(***************************************************************************)
(* The reader of a peer that sends malformed frames.                       *)
(***************************************************************************)
\* two markers in a row leave an empty frame between them
EmptyFrame == << >>
\* a frame that ends within its length field
ShortFrame == <<0>>
\* a frame that ends before its type
NoTypeFrame == <<0, 19>>
\* a frame of type 9
UnknownTypeFrame == <<0, 19, 9>>
\* the header of an OPEN without its body
TruncatedOpenFrame == <<0, 19, msgTypeOpen>>
\* the header of an UPDATE with one byte of body
TruncatedUpdateFrame == <<0, 20, msgTypeUpdate, 0>>

MalformedFrames == {EmptyFrame, ShortFrame, NoTypeFrame, UnknownTypeFrame, BadLengthFrame,
                    TruncatedOpenFrame, TruncatedUpdateFrame}

\* the frames the marshal functions produce
WellFormedFrames == {KeepAliveFrame, OpenFrame, UpdateFrame, NotificationFrame}

\* reads of a malformed frame with a KEEPALIVE after it
MalformedResults == {ReadResult(<<>>, <<f, KeepAliveFrame>>) : f \in MalformedFrames}

readReplyAny ==
    \E r \in BagToSet(reader) :
        \/ readReplyLoop(r)
        \/ readReplyRead(r)
        \/ readReplyError(r)
        \/ readReplyClose(r)
        \/ \E b \in ReadResults \cup MalformedResults : readReplyData(r, b)
        \/ readReplyPush(r)

NextRd ==
    /\ ~crashed
    /\ UNCHANGED codec
    /\ \/ Connect
       \/ Disconnect
       \/ readReplyAny
       \/ processReply
       \/ sendKeepalive

SpecRd == Init /\ [][NextRd]_vars

\* the reader r after the frame it is at
AfterFrame(r) == IF Len(r.pkts) = 1 THEN Rd("loop", 0, <<>>) ELSE Rd("push", 0, Tail(r.pkts))

\* C14: the reader's step for a frame, while the queue is open, never panics
\* and takes the reader to the next frame of the read; it queues the message
\* of a well-formed frame and leaves the queue as it is for a malformed one;
\* and no reader ends while the engine is running.
C14ReaderSurvives ==
    [][\A r \in BagToSet(reader) :
          /\ (readReplyPush(r) /\ ~chClosed) =>
                /\ ~crashed'
                /\ reader' = Move(reader, r, AfterFrame(r))
                /\ Head(r.pkts) \in WellFormedFrames => Len(ch') = Len(ch) + 1
                /\ Head(r.pkts) \in MalformedFrames => ch' = ch
          /\ BagCardinality(reader') < BagCardinality(reader) => ~running]_vars

\* the same, but for a step that panics
C14ReaderSurvivesOrPanics ==
    [][\A r \in BagToSet(reader) :
          /\ (readReplyPush(r) /\ ~chClosed /\ ~crashed') =>
                /\ reader' = Move(reader, r, AfterFrame(r))
                /\ Head(r.pkts) \in WellFormedFrames => Len(ch') = Len(ch) + 1
                /\ Head(r.pkts) \in MalformedFrames => ch' = ch
          /\ BagCardinality(reader') < BagCardinality(reader) => ~running]_vars

\* a frame with a wrong length was dropped and the KEEPALIVE after it, in the
\* same read, dispatched
C14BadFrameSkipped ==
    /\ received = <<BadLengthFrame, KeepAliveFrame>>
    /\ dispatched = DecodedOf(<<KeepAliveFrame>>)
    /\ Len(dispatched) = 1
    /\ running
    /\ ~crashed

(***************************************************************************)
(* Disconnect and the drain of the queue: the inbound path with the        *)
(* processor and the sendKeepalive goroutines scheduled fairly.            *)
(***************************************************************************)
SpecDrain ==
    /\ Init
    /\ [][NextIn]_vars
    /\ WF_vars(~crashed /\ UNCHANGED codec /\ processReply)
    /\ WF_vars(~crashed /\ UNCHANGED codec /\ sendKeepalive)

\* the queue is closed and empty and the processors have ended
Drained == chClosed /\ ch = << >> /\ processor = EmptyBag

\* C15: Disconnect() on a running engine clears b.running, then closes the
\* socket b.conn holds and sets b.conn to nil, then closes b.ch, without a
\* panic; once b.ch is closed the messages in it are dispatched in their order,
\* none lost and none added, a processor ends only with the queue closed and
\* empty, and the queue is drained and the processors end.
C15DisconnectDrains ==
    /\ [][/\ (DisconnectCall /\ running) => (~running' /\ caller'.op = "Disconnect")
          /\ DisconnectClose => (~crashed' /\ conn \in closed' /\ conn' = 0)
          /\ DisconnectCloseCh => (~crashed' /\ chClosed' /\ ch' = ch /\ Shutdown')
          /\ chClosed => (dispatched' \o ch' = dispatched \o ch /\ IsPrefix(dispatched, dispatched'))
          /\ BagCardinality(processor') < BagCardinality(processor) => (chClosed /\ ch = << >>)]_vars
    /\ chClosed ~> Drained

\* the same, but for the steps that panic
C15DisconnectDrainsOrPanics ==
    /\ [][/\ (DisconnectCall /\ running) => (~running' /\ caller'.op = "Disconnect")
          /\ (DisconnectClose /\ ~crashed') => (conn \in closed' /\ conn' = 0)
          /\ (DisconnectCloseCh /\ ~crashed') => (chClosed' /\ ch' = ch /\ Shutdown')
          /\ chClosed => (dispatched' \o ch' = dispatched \o ch /\ IsPrefix(dispatched, dispatched'))
          /\ BagCardinality(processor') < BagCardinality(processor) => (chClosed /\ ch = << >>)]_vars
    /\ chClosed ~> (Drained \/ crashed)

\* Disconnect() has returned, the three messages read were dispatched and the
\* processor has ended
C15DrainedAfterShutdown ==
    /\ Shutdown
    /\ Drained
    /\ Len(received) = 3
    /\ dispatched = DecodedOf(received)
    /\ Len(dispatched) = 3

(***************************************************************************)
(* The full queue: a peer that sends MaxBurst messages at once and a       *)
(* callback so slow that the processor only gets to b.ch when it is full.  *)
(***************************************************************************)
\* what one Read returns: KEEPALIVE frames, every hundredth frame an UPDATE
BurstFrames == [i \in 1..MaxBurst |-> IF i % 100 = 0 THEN UpdateFrame ELSE KeepAliveFrame]

readReplyBurst ==
    \E r \in BagToSet(reader) :
        \/ readReplyLoop(r)
        \/ readReplyRead(r)
        \/ received = << >> /\ readReplyReturned(r, ReadResult(<<>>, BurstFrames))
        \/ readReplyPush(r)

processReplySlow == \E r \in BagToSet(processor) : QueueFull /\ processReplyReceive(r)

\* the application calls Connect() and nothing after it
ConnectOnce == (calls = 0 /\ ConnectCall) \/ ConnectDial \/ ConnectOpen

NextQueue ==
    /\ ~crashed
    /\ UNCHANGED codec
    /\ \/ ConnectOnce
       \/ readReplyBurst
       \/ processReplySlow

SpecQueue == Init /\ [][NextQueue]_vars

\* the messages of a sequence of well-formed frames
MessagesOf(frames) == [i \in 1..Len(frames) |-> unmarshalMessage(frames[i]).ret]

BurstMessages == MessagesOf(BurstFrames)

\* the last n elements of a sequence and the ones before them
Last(seq, n) == SubSeq(seq, Len(seq) - n + 1, Len(seq))
First(seq, n) == SubSeq(seq, 1, Len(seq) - n)

\* C16: b.ch never holds more than processQueueLength messages; the reader
\* pushes a message only when b.ch holds fewer, and then at its end; and the
\* messages dispatched, then those in b.ch, then those of the frames the reader
\* has yet to push, are always the messages of the frames read, in their order.
C16QueueBounded ==
    [][/\ Len(ch') <= processQueueLength
       /\ \A r \in BagToSet(reader) :
             readReplyPush(r) =>
                /\ Len(ch) < processQueueLength
                /\ ch' = Append(ch, unmarshalMessage(Head(r.pkts)).ret)
       /\ LET pending == PendingOf(BagToSet(reader'))
          IN /\ received' \in {<< >>, BurstFrames}
             /\ Len(pending) <= Len(received')
             /\ pending = Last(received', Len(pending))
             /\ dispatched' \o ch' = First(IF received' = << >> THEN << >> ELSE BurstMessages, Len(pending))]_vars

\* the queue has been full, the processor has taken one message and the
\* reader has pushed one more: the queue is full again, and the reader
\* waits with the last frame
C16ReaderWaits ==
    /\ Len(received) = MaxBurst
    /\ Len(dispatched) = 1
    /\ Len(ch) = processQueueLength
    /\ \E r \in BagToSet(reader) : r.pc = "push" /\ Len(r.pkts) = MaxBurst - processQueueLength - 1

(***************************************************************************)
(* The codec alone: one function is called with one argument, and what it  *)
(* returned is decoded as the reader decodes a frame.                      *)
(***************************************************************************)
\* "10.1.2.3/8", whose network address is 10.0.0.0
UnmaskedPrefix == <<10, 1, 2, 3, 8>>

\* the body lengths marshalMessageHeader is called with
HeaderLengths == {-1, 0, 2, 10, 23, 4077, 65516, 65517, 65536}
HeaderTypes == 0..5

OpenInputs ==
    [ASN : {0, ConfigASN, 65535}, HoldTime : {0, 3, ConfigHoldTime, 65535},
     RouterID : {ConfigRouterID, <<0, 0, 0, 0>>, <<255, 255, 255, 255>>, <<1, 1, 1, 256>>}]

UpdateInputs ==
    {[Withdrawns |-> w, Prefixes |-> ps, Origin |-> a.Origin, AsPath |-> a.AsPath, NextHops |-> a.NextHops] :
        w \in {<<>>, <<Prefix1>>, <<Prefix1, Prefix2>>, <<BadPrefix>>},
        ps \in {<<>>, <<Prefix1>>, <<Prefix1, Prefix2>>, <<UnmaskedPrefix>>, <<BadPrefix>>},
        a \in AttrChoices \cup {NoAttrs}}

\* a Data that makes the message 65536 bytes long
LongData == [i \in 1..(65536 - headerLength - 2) |-> 0]

NotificationCodes == 0..7
NotificationSubCodes == 0..12
NotificationInputs ==
    [Code : NotificationCodes, SubCode : NotificationSubCodes, Data : {<<>>, <<1, 2>>}]
    \cup {[Code |-> 6, SubCode |-> 2, Data |-> LongData]}

\* the bodies unmarshalMessageNotification is called with
NotificationBodies ==
    {<<c, sc>> \o d : c \in NotificationCodes, sc \in NotificationSubCodes, d \in {<<>>, <<1, 2>>}}
    \cup {<<>>, <<6>>}

\* the parts of a marshaled UPDATE, by its two length fields
UpdateBody(msg) == SubSeq(msg, headerLength + 1, Len(msg))
WithdrawnLength(msg) == Uint16(SubSeq(UpdateBody(msg), 1, 2))
AttributeLength(msg) == Uint16(SubSeq(UpdateBody(msg), WithdrawnLength(msg) + 3, WithdrawnLength(msg) + 4))
AttributeBytes(msg) ==
    SubSeq(UpdateBody(msg), WithdrawnLength(msg) + 5, WithdrawnLength(msg) + 4 + AttributeLength(msg))
NLRIBytes(msg) ==
    SubSeq(UpdateBody(msg), WithdrawnLength(msg) + 5 + AttributeLength(msg), Len(UpdateBody(msg)))

Call(fn, in) == [fn |-> fn, in |-> in]

\* an attribute the decoder has no case for: flags, type, length, value
ExtraAttribute(flags, type, n) == <<flags, type, n>> \o [i \in 1..n |-> 1]

\* no attribute more
NoExtra == << >>

\* where each of the three attributes of a marshaled UPDATE ends: ORIGIN has one
\* byte of value, AS_PATH the length of its third byte
AttributeEnds(attrs) == <<0, 4, 4 + 3 + attrs[7], Len(attrs)>>

\* the body of the UPDATE of m with the attribute extra put after the first at
\* attributes: withdrawn length, attribute length, attributes, NLRI
UpdateBodyWith(m, at, extra) ==
    LET msg == marshalMessageUpdate(m).ret
        attrs == AttributeBytes(msg)
        cut == AttributeEnds(attrs)[at + 1]
    IN <<0, 0>> \o PutUint16(Len(attrs) + Len(extra))
       \o SubSeq(attrs, 1, cut) \o extra \o SubSeq(attrs, cut + 1, Len(attrs)) \o NLRIBytes(msg)

\* the bodies unmarshalMessageUpdate is called with: an announcement, and one
\* attribute more among its three
AnnouncementInputs ==
    {Announcement(Prefix1, GoodAttrs1),
     [Announcement(Prefix1, GoodAttrs2) EXCEPT !.Prefixes = <<Prefix1, Prefix2>>]}
ExtraAttributes ==
    {NoExtra} \cup {ExtraAttribute(f, t, n) : f \in {64, 128, 192}, t \in {4, 5, 9}, n \in {0, 1, 4, 61}}
UpdateBodyInputs == [m : AnnouncementInputs, at : 0..3, extra : ExtraAttributes]

InitCodec ==
    /\ Constructed
    /\ out = NoOut
    /\ \/ \E t \in HeaderTypes, l \in HeaderLengths : arg = Call("marshalMessageHeader", <<t, l>>)
       \/ \E m \in OpenInputs : arg = Call("marshalMessageOpen", m)
       \/ \E m \in UpdateInputs : arg = Call("marshalMessageUpdate", m)
       \/ \E m \in NotificationInputs : arg = Call("marshalMessageNotification", m)
       \/ \E in \in NotificationBodies : arg = Call("unmarshalMessageNotification", in)
       \/ \E in \in UpdateBodyInputs : arg = Call("unmarshalMessageUpdate", in)

\* the call returns: its result is the first element of out
Returns(fn, result) ==
    /\ arg.fn = fn
    /\ out = NoOut
    /\ out' = <<result>>
    /\ UNCHANGED <<arg, shared, network, goroutines, application, inbound, crashed>>

marshalMessageHeaderCall == Returns("marshalMessageHeader", marshalMessageHeader(arg.in[1], arg.in[2]))
marshalMessageOpenCall == Returns("marshalMessageOpen", marshalMessageOpen(arg.in))
marshalMessageUpdateCall == Returns("marshalMessageUpdate", marshalMessageUpdate(arg.in))
marshalMessageNotificationCall == Returns("marshalMessageNotification", marshalMessageNotification(arg.in))
unmarshalMessageNotificationCall == Returns("unmarshalMessageNotification", unmarshalMessageNotification(arg.in))

unmarshalMessageUpdateCall ==
    Returns("unmarshalMessageUpdate",
            unmarshalMessageUpdate(UpdateBodyWith(arg.in.m, arg.in.at, arg.in.extra)))

Marshals == {"marshalMessageOpen", "marshalMessageUpdate", "marshalMessageNotification"}

\* the bytes a marshal function returned without error are decoded, the marker
\* stripped: the result is the second element of out
unmarshalMessageCall ==
    /\ arg.fn \in Marshals
    /\ Len(out) = 1
    /\ out[1].err = ""
    /\ out' = Append(out, unmarshalMessage(Frame(out[1].ret)))
    /\ UNCHANGED <<arg, shared, network, goroutines, application, inbound, crashed>>

NextCodec ==
    \/ marshalMessageHeaderCall
    \/ marshalMessageOpenCall
    \/ marshalMessageUpdateCall
    \/ marshalMessageNotificationCall
    \/ unmarshalMessageNotificationCall
    \/ unmarshalMessageUpdateCall
    \/ unmarshalMessageCall

SpecCodec == InitCodec /\ [][NextCodec]_vars

\* the message type of a marshal function
TypeOf(fn) ==
    CASE fn = "marshalMessageOpen" -> msgTypeOpen
      [] fn = "marshalMessageUpdate" -> msgTypeUpdate
      [] fn = "marshalMessageNotification" -> msgTypeNotification

\* the argument was marshaled without error, and the bytes decoded
RoundTripped == arg.fn \in Marshals /\ Len(out) = 2

\* C17: the decoding of what a marshal function returned for m neither fails
\* nor panics and gives a message of m's type whose Data equals m.
C17RoundTrip ==
    RoundTripped =>
        /\ ~out[2].panic
        /\ out[2].err = ""
        /\ out[2].ret = Message(TypeOf(arg.fn), arg.in)

\* the announcement Add builds for Prefix1 came back as it was
C17AnnouncementBack ==
    /\ arg.fn = "marshalMessageUpdate"
    /\ arg.in = Announcement(Prefix1, GoodAttrs1)
    /\ RoundTripped
    /\ out[2].err = ""
    /\ out[2].ret = Message(msgTypeUpdate, Announcement(Prefix1, GoodAttrs1))

KnownTypes == {msgTypeOpen, msgTypeUpdate, msgTypeNotification, msgTypeKeepAlive}

\* the body lengths the marshal functions call marshalMessageHeader with: an OPEN
\* without optional parameters has 10 bytes, a KEEPALIVE none, a NOTIFICATION
\* two and its Data, an UPDATE its two length fields and what they count
Producible(t, l) ==
    CASE t = msgTypeOpen -> l = 10
      [] t = msgTypeKeepAlive -> l = 0
      [] t = msgTypeNotification -> l >= 2
      [] t = msgTypeUpdate -> l >= 4
      [] OTHER -> FALSE

\* msg starts with the header of a message of type t with l bytes of body
HeaderOf(msg, t, l) ==
    /\ Len(msg) >= headerLength
    /\ \A i \in 1..16 : msg[i] = 255
    /\ msg[17] * 256 + msg[18] = headerLength + l
    /\ msg[19] = t

\* C18: marshalMessageHeader rejects a negative length and an unknown type, and
\* for a known type and a body length a marshal function can produce returns
\* exactly 19 bytes: sixteen 0xFF, the length 19 + body length in 16 bits, the
\* type; and every message a marshal function returns starts with the header
\* of its type and of its own body length.
C18HeaderInvariant ==
    /\ (arg.fn = "marshalMessageHeader" /\ Len(out) = 1) =>
          LET t == arg.in[1]
              l == arg.in[2]
          IN  /\ (l < 0 \/ t \notin KnownTypes) => out[1].err # ""
              /\ (t \in KnownTypes /\ Producible(t, l)) =>
                    /\ out[1].err = ""
                    /\ Len(out[1].ret) = headerLength
                    /\ HeaderOf(out[1].ret, t, l)
    /\ (arg.fn \in Marshals /\ Len(out) >= 1 /\ out[1].err = "") =>
          HeaderOf(out[1].ret, TypeOf(arg.fn), Len(out[1].ret) - headerLength)

\* the header of an UPDATE with 4077 bytes of body: length field 0x1000
C18HeaderOfUpdate ==
    /\ arg.fn = "marshalMessageHeader"
    /\ arg.in = <<msgTypeUpdate, 4077>>
    /\ Len(out) = 1
    /\ out[1].err = ""
    /\ out[1].ret = headerMarker \o <<16, 0, 2>>

\* the type codes of a sequence of attributes: flags, type, length, value
RECURSIVE AttributeTypes(_)
AttributeTypes(b) ==
    IF Len(b) < 3 THEN <<>>
    ELSE <<b[2]>> \o AttributeTypes(SubSeq(b, 4 + b[3], Len(b)))

AllAttributes == <<attributeTypeOrigin, attributeTypeAsPath, attributeTypeNextHop>>

UpdateReturned == arg.fn = "marshalMessageUpdate" /\ Len(out) >= 1

\* C19: a marshaled UPDATE holds the ORIGIN, AS_PATH and NEXT_HOP attributes,
\* in this order and nothing else, if the message announces a prefix, and no
\* attribute at all if it does not; marshaling fails if prefixes are announced
\* with an empty AS_PATH or with no next hop; a message that only withdraws is
\* marshaled without error, whatever attributes it carries, as the withdrawn
\* prefixes followed by a zero attribute length and nothing more.
C19UpdateEncoding ==
    UpdateReturned =>
        LET m == arg.in
            msg == out[1].ret
        IN  /\ out[1].err = "" =>
                /\ Len(m.Prefixes) > 0 <=> AttributeTypes(AttributeBytes(msg)) = AllAttributes
                /\ Len(m.Prefixes) = 0 <=> AttributeLength(msg) = 0
                /\ Len(NLRIBytes(msg)) = 5 * Len(m.Prefixes)
            /\ (Len(m.Prefixes) > 0 /\ (m.AsPath.Path = <<>> \/ m.NextHops = <<>>)) => out[1].err # ""
            /\ (m.Prefixes = <<>> /\ m.Withdrawns # <<>> /\ PrefixEntries(m.Withdrawns).err = "") =>
                /\ out[1].err = ""
                /\ WithdrawnLength(msg) = 5 * Len(m.Withdrawns)
                /\ UpdateBody(msg) = SubSeq(UpdateBody(msg), 1, 2) \o PrefixEntries(m.Withdrawns).ret \o <<0, 0>>

\* the withdrawal Del makes of a stored announcement, attributes and all, was
\* marshaled: 12.34.56.78/32 withdrawn, attribute length zero
C19WithdrawalOnly ==
    /\ UpdateReturned
    /\ arg.in = Withdrawal(Announcement(Prefix1, GoodAttrs1))
    /\ arg.in.AsPath.Path # <<>>
    /\ out[1].err = ""
    /\ UpdateBody(out[1].ret) = <<0, 5, 32, 12, 34, 56, 78, 0, 0>>

\* the pairs of error code and subcode of the notification tables
InTaxonomy(code, subcode) ==
    \/ code = 1 /\ subcode \in {1, 2, 3}
    \/ code = 2 /\ subcode \in {1, 2, 3, 4, 6, 7}
    \/ code = 3 /\ subcode \in (1..6) \cup {8, 9, 10, 11}
    \/ code \in {4, 5}
    \/ code = 6 /\ subcode \in 1..10

\* C20: marshalMessageNotification returns without error exactly for the
\* messages whose (Code, SubCode) is in the taxonomy, unmarshalMessageNotification
\* exactly for the bodies whose first two bytes are, and the decoding of a
\* notification the encoder returned does not fail.
C20NotificationValidation ==
    /\ (arg.fn = "marshalMessageNotification" /\ Len(out) >= 1) =>
          (out[1].err = "" <=> InTaxonomy(arg.in.Code, arg.in.SubCode))
    /\ (arg.fn = "unmarshalMessageNotification" /\ Len(out) = 1 /\ Len(arg.in) >= 2) =>
          (out[1].err = "" <=> InTaxonomy(arg.in[1], arg.in[2]))
    /\ (arg.fn = "marshalMessageNotification" /\ Len(out) = 2) =>
          (~out[2].panic /\ out[2].err = "")

\* Cease / BFD Down was accepted by the encoder and by the decoder
C20BFDDownAccepted ==
    /\ arg.fn = "marshalMessageNotification"
    /\ arg.in = [Code |-> 6, SubCode |-> 10, Data |-> <<>>]
    /\ Len(out) = 2
    /\ out[1].err = ""
    /\ out[2] = Decoded(Message(msgTypeNotification, arg.in))

(***************************************************************************)
(* One session and its shutdown: Add() and Connect(), then Disconnect(),   *)
(* and the four goroutines of the session with sendKeepalive, every        *)
(* goroutine taking its next step whenever it can.                         *)
(***************************************************************************)
\* the reader of a peer that answers with a KEEPALIVE and a NOTIFICATION in one read
readReplyAnswered ==
    \E r \in BagToSet(reader) :
        \/ readReplyLoop(r)
        \/ readReplyRead(r)
        \/ readReplyError(r)
        \/ readReplyClose(r)
        \/ readReplyData(r, ReadResult(<<>>, <<KeepAliveFrame, NotificationFrame>>))
        \/ readReplyPush(r)

\* the calls before the session: Add of one prefix, then Connect until it succeeds
AddBefore == calls = 0 /\ AddCall(Prefix1, GoodAttrs1)
ConnectEarly == (calls <= 1 /\ ConnectCall) \/ ConnectDial \/ ConnectOpen

NextStop ==
    /\ ~crashed
    /\ UNCHANGED codec
    /\ \/ AddBefore
       \/ ConnectEarly
       \/ Disconnect
       \/ connection
       \/ keepalive
       \/ sendKeepalive
       \/ readReplyAnswered
       \/ processReply

connectionRuns == ~crashed /\ UNCHANGED codec /\ connection
keepaliveRuns == ~crashed /\ UNCHANGED codec /\ keepalive
sendKeepaliveRuns == ~crashed /\ UNCHANGED codec /\ sendKeepalive
readReplyRuns == ~crashed /\ UNCHANGED codec /\ readReplyAnswered
processReplyRuns == ~crashed /\ UNCHANGED codec /\ processReply

SpecStop ==
    /\ Init
    /\ [][NextStop]_vars
    /\ WF_vars(connectionRuns)
    /\ WF_vars(keepaliveRuns)
    /\ WF_vars(sendKeepaliveRuns)
    /\ WF_vars(readReplyRuns)
    /\ WF_vars(processReplyRuns)

\* Disconnect() has closed b.ch and returned; no Connect() follows in SpecStop
Stopped == chClosed /\ caller = Idle

\* the goroutines of the four activities have all returned
Exited == monitor = EmptyBag /\ ticker = EmptyBag /\ reader = EmptyBag /\ processor = EmptyBag

\* C21: once Disconnect() has returned, no goroutine panics; a monitor, a
\* keepalive and a reader end only with b.running clear, a processor only with
\* b.ch closed and empty; and all of them end.
C21ShutdownTerminates ==
    /\ [][Stopped =>
            /\ ~crashed'
            /\ BagCardinality(monitor') < BagCardinality(monitor) => ~running
            /\ BagCardinality(ticker') < BagCardinality(ticker) => ~running
            /\ BagCardinality(reader') < BagCardinality(reader) => ~running
            /\ BagCardinality(processor') < BagCardinality(processor) => (chClosed /\ ch = << >>)]_vars
    /\ Stopped ~> (Exited /\ ~crashed)

\* the same, but for the steps that panic
C21ShutdownTerminatesOrPanics ==
    /\ [][(Stopped /\ ~crashed') =>
            /\ BagCardinality(monitor') < BagCardinality(monitor) => ~running
            /\ BagCardinality(ticker') < BagCardinality(ticker) => ~running
            /\ BagCardinality(reader') < BagCardinality(reader) => ~running
            /\ BagCardinality(processor') < BagCardinality(processor) => (chClosed /\ ch = << >>)]_vars
    /\ Stopped ~> (Exited \/ crashed)

\* Disconnect() has returned and the four goroutines have ended, after a
\* message was dispatched
C21AllExited == Stopped /\ Exited /\ ~crashed /\ senders = EmptyBag /\ Len(dispatched) > 0

\* unmarshalMessageUpdate has returned for a body with one attribute more
ExtraDecoded == arg.fn = "unmarshalMessageUpdate" /\ Len(out) = 1 /\ arg.in.extra # NoExtra

\* C22: an UPDATE body that holds, anywhere among its ORIGIN, AS_PATH and
\* NEXT_HOP, an attribute with flag byte 0x40 of another type decodes without
\* error or panic to the message it decodes to without that attribute: the
\* attributes and the prefixes after it are read where they are.
C22UnknownAttributeSkipped ==
    (ExtraDecoded /\ arg.in.extra[1] = 64) =>
        /\ out[1] = Decoded(arg.in.m)
        /\ out[1] = unmarshalMessageUpdate(UpdateBodyWith(arg.in.m, arg.in.at, NoExtra))

\* the same of the attributes without the flag 0x40, and of the body without
\* an attribute more
C22OtherFlagsSkipped ==
    (arg.fn = "unmarshalMessageUpdate" /\ Len(out) = 1 /\ (arg.in.extra = NoExtra \/ arg.in.extra[1] # 64)) =>
        out[1] = Decoded(arg.in.m)

\* an attribute of type 5 with flag 0x40 and four bytes of value, between ORIGIN
\* and AS_PATH, was decoded
C22UnknownDecoded ==
    /\ ExtraDecoded
    /\ arg.in.m = Announcement(Prefix1, GoodAttrs1)
    /\ arg.in.at = 1
    /\ arg.in.extra = <<64, 5, 4, 1, 1, 1, 1>>

\* C23: the first message written to a connection, whoever dialed it, is the
\* OPEN: no connection has a KEEPALIVE or an UPDATE as its first message.
C23OpenFirst == \A c \in Handles : wire[c].first \in {<< >>, OpenMsg.ret}

\* the connection the monitor dialed got the OPEN first and then the UPDATE of
\* the resend pass
C23OpenThenResent ==
    /\ conn = 2
    /\ wire[2].first = OpenMsg.ret
    /\ wire[2].update[Prefix1] = marshalMessageUpdate(Announcement(Prefix1, GoodAttrs1)).ret
    /\ \E r \in BagToSet(monitor) : r.pc = "range"

(***************************************************************************)
(* C24: the closed inbound queue.                                          *)
(***************************************************************************)
\* the reader's b.ch <- msg on the queue Disconnect has closed
PushOnClosed ==
    /\ chClosed
    /\ \E r \in BagToSet(reader) :
        /\ r.pc = "push"
        /\ ~unmarshalMessage(Head(r.pkts)).panic
        /\ unmarshalMessage(Head(r.pkts)).err = ""
        /\ readReplyPush(r)

\* Disconnect's close(b.ch) of the queue an earlier Disconnect has closed
CloseOfClosed == chClosed /\ DisconnectCloseCh

\* C24: no step of the engine is a push on the closed inbound queue or a
\* second close of it.
C24ClosedQueueUnused == [][~PushOnClosed /\ ~CloseOfClosed]_vars

C24ConnectedAgain == chClosed /\ running /\ caller = Idle /\ ret.op = "Connect" /\ ret.err = "" /\ ~crashed

(***************************************************************************)
(* C25: the absent socket handle.                                          *)
(***************************************************************************)
AddOne == AddCall(Prefix1, GoodAttrs1)
DelOne == DelCall(Prefix1)

\* one session with calls of Add and Del for one prefix, and every goroutine
NextUse ==
    /\ ~crashed
    /\ UNCHANGED codec
    /\ \/ ConnectEarly
       \/ Disconnect
       \/ AddOne
       \/ DelOne
       \/ CallWrite
       \/ connection
       \/ keepalive
       \/ sendKeepalive
       \/ readReplyAnswered
       \/ processReply

SpecUse == Init /\ [][NextUse]_vars

\* b.conn.Write of sendKeepalive, and of sendUpdate called by Add, Del or the resend pass
WriteOnAbsent ==
    \/ \E r \in BagToSet(senders) : sendKeepaliveWrite(r)
    \/ CallWrite
    \/ \E r \in BagToSet(monitor) : connectionSend(r)

\* b.conn.Read of the reader
ReadOnAbsent == \E r \in BagToSet(reader) : readReplyRead(r)

\* b.conn.Close of disconnect, called by Disconnect, after a read error, after a
\* failed keepalive write, on a NOTIFICATION
CloseOnAbsent ==
    \/ DisconnectClose
    \/ \E r \in BagToSet(reader) : readReplyClose(r)
    \/ \E r \in BagToSet(senders) : sendKeepaliveClose(r)
    \/ \E r \in BagToSet(processor) : processReplyClose(r)

\* C25: no step of an activity reads, writes or closes the socket while the
\* handle is absent.
C25HandlePresentWhenUsed == [][conn = 0 => ~(WriteOnAbsent \/ ReadOnAbsent \/ CloseOnAbsent)]_vars

C25HandleUsed ==
    /\ ~crashed
    /\ conn = 1
    /\ wire[1].keepalive # << >>
    /\ \E k \in DOMAIN wire[1].update : wire[1].update[k] # << >>
    /\ received # << >>

(***************************************************************************)
(* C26: the instances of the four activities.                              *)
(***************************************************************************)
\* the processor of a silent peer: its range over b.ch ends when the queue is closed
processReplyIdle == \E r \in BagToSet(processor) : processReplyDone(r)

\* sessions one after the other, with a peer that accepts and then sends nothing
NextAgain ==
    /\ ~crashed
    /\ UNCHANGED codec
    /\ \/ Connect
       \/ Disconnect
       \/ connectionAccepted
       \/ keepalive
       \/ sendKeepalive
       \/ readReplyFailing
       \/ processReplyIdle

SpecAgain == Init /\ [][NextAgain]_vars

\* C26: at every moment at most one monitor, one keepalive ticker, one reader
\* and one processor are alive.
C26OneInstanceEach == \A i \in DOMAIN Activities : Activities[i] <= 1

C26SecondSession ==
    /\ chClosed /\ running /\ ~crashed
    /\ caller = Idle /\ ret.op = "Connect" /\ ret.err = ""
    /\ \A i \in DOMAIN Activities : Activities[i] = 1

(***************************************************************************)
(* C27: Connect() that returns an error.                                   *)
(***************************************************************************)
\* Connect() returns the error of connect(): the dial or the OPEN write failed
ConnectFails == (ConnectDial \/ ConnectOpen) /\ caller' = Idle /\ ret'.err # "" /\ ~crashed'

\* C27: when Connect() returns the error of a failed dial or of a failed OPEN
\* write, running is false, b.conn is nil and no goroutine was started.
C27FailedConnectDisconnected == [][ConnectFails => (~running' /\ conn' = 0 /\ UNCHANGED goroutines)]_vars

C27DialFailed ==
    /\ caller = Idle /\ ret.op = "Connect" /\ ret.err \notin {"", "Connect: Alredy running", "write failed"}
    /\ ~running /\ conn = 0 /\ Activities = <<0, 0, 0, 0>>

(***************************************************************************)
(* C28: Del and the resend pass.                                           *)
(***************************************************************************)
\* this step writes, on connection c, an UPDATE that announces p, the last UPDATE
\* about p written on c being the withdrawal of Del(p)
AnnouncedAfterWithdrawal(c, p) ==
    /\ wire[c].update[p] = Withdrawn(p)
    /\ wire'[c].update[p] \notin {<< >>, Withdrawn(p)}

\* C28: on every connection, an announcement of p is written after the
\* withdrawal of Del(p) only if Add(p) was called since that Del.
C28NoAnnouncementAfterWithdrawal ==
    [][\A c \in Handles, p \in ValidPrefixes : AnnouncedAfterWithdrawal(c, p) => last[p].op = "Add"]_vars

C28WithdrawnDuringPass ==
    /\ conn # 0
    /\ wire[conn].update[Prefix1] = Withdrawn(Prefix1)
    /\ Returned("Del", Prefix1, "")
    /\ last[Prefix1] = NoAdd
    /\ \E r \in BagToSet(monitor) : r.pc = "range"
    /\ ~crashed

====
